---- MODULE Spec2Model ----
(***************************************************************************)
(* A model of glyphwork's animation engine (glyphwork/animation.py) and    *)
(* particle system (glyphwork/particles.py).                               *)
(*                                                                         *)
(* Characters are one-character strings; a Python str argument is a        *)
(* sequence of characters.  A string written to the terminal is a sequence *)
(* of tokens: a printed character <<"CH", c>>, a newline <<"NL">>, and one *)
(* token per escape sequence, the cursor-position sequence keeping the two *)
(* 1-indexed numbers that are formatted into it.                           *)
(***************************************************************************)
EXTENDS Integers, Sequences, FiniteSets, TLC

\* ------------------------------------------------------------------ bounds
\* Buffers have at most MaxCells cells (width * height).
MaxCells == 4
\* commit() is called at most MaxFrames times between two start() calls.
MaxFrames == 3

\* Printable characters a cell can hold; " " is the blank.
Chars == {" ", "x"}
\* str arguments: the empty string, one character, two characters.
Strs == {<<>>} \cup {<<c>> : c \in Chars} \cup {<<"x", " ">>}
\* The DiffRenderer is given buffers of different sizes of at most MaxResizeCells cells.
MaxResizeCells == 2

\* An AnimationCanvas has at most MaxCanvasCells cells.
MaxCanvasCells == 3

\* Buffer sizes.
CanvasSizes == {s \in (1 .. MaxCanvasCells) \X (1 .. MaxCanvasCells) : s[1] * s[2] <= MaxCanvasCells}
ResizeSizes == {s \in (1 .. MaxResizeCells) \X (1 .. MaxResizeCells) : s[1] * s[2] <= MaxResizeCells}
Sizes == {s \in (1 .. MaxCells) \X (1 .. MaxCells) : s[1] * s[2] <= MaxCells}

VARIABLES
    buf,            \* a Buffer owned by the host and edited between renders
    back,           \* AnimationCanvas.back
    front,          \* AnimationCanvas.front
    last_buffer,    \* DiffRenderer.last_buffer (None before the first render)
    force_full,     \* DiffRenderer.force_full
    frame_count,    \* AnimationCanvas.frame_count
    running,        \* AnimationCanvas._running
    use_alt_screen, \* AnimationCanvas._use_alt_screen
    in_alt_screen,  \* AnimationCanvas._in_alt_screen
    start_time,     \* AnimationCanvas.start_time (None before start())
    last_frame_time,\* AnimationCanvas.last_frame_time
    now,            \* the wall clock read by time.time()
    out,            \* what the last operation wrote to the stream (render: its return value)
    got,            \* the value returned by the last Buffer.get
    op,             \* the name of the last operation
    args,           \* the arguments <<x, y, ch>> of the last Buffer.set or Buffer.get
    term,           \* the grid of a terminal emulator fed with the render outputs
    cur,            \* the emulator's cursor, <<row, col>>, 0-indexed
    rendered,       \* history: a snapshot of the buffer passed to the last render
    same_size,      \* history: every render so far was given a buffer of one size
    forced,         \* history: force_redraw() was called since the last render
    commits,        \* history: commit() calls since the last start()
    particles,      \* ParticleCanvas.particles
    emitters,       \* ParticleCanvas.emitters; alone, the one ParticleEmitter of the host
    max_particles,  \* ParticleCanvas.max_particles
    kill_out_of_bounds, \* ParticleCanvas.kill_out_of_bounds
    spawned,        \* the list returned by the last ParticleEmitter.update or burst
    last_dt,        \* in the state after an update, the dt it was given
    next_id,        \* history: how many particles were appended to the pool so far
    updated,        \* history: in the state after update_particles(), the pool before the filter
    survivors,      \* history: in the state after update_particles(), the pool before the cap
    total,          \* history: particles returned by ParticleEmitter.update() so far
    elapsed,        \* history: the sum of the dt given to ParticleEmitter.update()
    steady,         \* history: no burst() and no change of active or spawn_rate so far
    alt_entered,    \* history: start(use_alt_screen=True) was called since the last stop()
    slept,          \* the seconds the last wait_frame() passed to time.sleep (0: no sleep)
    value,          \* the value returned by the last animate_value or easing call
    jcanvas,        \* a JunctionCanvas of the host
    transition,     \* a Transition of the host (FadeTransition or WipeTransition)
    sprite,         \* a Sprite of the host
    motion,         \* a SpriteMotion on that sprite
    done,           \* the value returned by the last Transition.update or SpriteMotion.update
    set_calls       \* history: the cells the last draw_line passed to set(), in order

bufVars == <<buf, got>>
canvasVars == <<back, front, frame_count, running, use_alt_screen, in_alt_screen,
                start_time, last_frame_time, now, commits>>
rendererVars == <<last_buffer, force_full, out, rendered, forced>>
termVars == <<term, cur, same_size>>
poolVars == <<particles, max_particles, kill_out_of_bounds, next_id, updated, survivors>>
emitterVars == <<emitters, spawned, last_dt, total, elapsed, steady>>
particleVars == <<poolVars, emitterVars>>
sceneVars == <<transition, sprite, motion, done, set_calls>>
moreVars == <<alt_entered, slept, value, jcanvas, sceneVars>>

\* ------------------------------------------------------------ Cell, Buffer
\* Python's None, for the optional Buffer and the optional times.
None == [width |-> 0, height |-> 0, cells |-> <<>>]
NoTime == -1
\* Python's None, for an object the host has not built yet.
NoScene == [kind |-> "none"]

\* Cell.__init__ and the right-hand side of Buffer.set: char[0] if char else " ".
FirstChar(ch) == IF ch = <<>> THEN " " ELSE Head(ch)

Positions(w, h) == (0 .. w - 1) \X (0 .. h - 1)

\* Buffer.__init__(width, height, fill)
NewBuffer(w, h, fill) ==
    [width |-> w, height |-> h, cells |-> [p \in Positions(w, h) |-> FirstChar(fill)]]

InBounds(b, x, y) == 0 <= x /\ x < b.width /\ 0 <= y /\ y < b.height

BufferSetWrap(b, x, y, ch) ==
    IF x < b.width /\ y < b.height /\ x >= -b.width /\ y >= -b.height
    THEN [b EXCEPT !.cells[<<x % b.width, y % b.height>>] = FirstChar(ch)]
    ELSE b

\* Buffer.set
BufferSet(b, x, y, ch) ==
    IF InBounds(b, x, y)
    THEN [b EXCEPT !.cells[<<x, y>>] = FirstChar(ch)]
    ELSE b

\* Buffer.get
BufferGet(b, x, y) ==
    IF InBounds(b, x, y) THEN b.cells[<<x, y>>] ELSE " "

\* Buffer.clear(fill), fill one character
BufferClear(b, fill) ==
    [b EXCEPT !.cells = [p \in Positions(b.width, b.height) |-> fill]]

Min(a, b) == IF a <= b THEN a ELSE b
Max(a, b) == IF a >= b THEN a ELSE b

BufferCopyNothing(self, other) == self

\* Buffer.copy_from: the overlapping region only; self keeps its own size.
BufferCopyFrom(self, other) ==
    [self EXCEPT !.cells =
        [p \in Positions(self.width, self.height) |->
            IF p[1] < Min(self.width, other.width) /\ p[2] < Min(self.height, other.height)
            THEN other.cells[p]
            ELSE self.cells[p]]]

\* "".join(cell.char for cell in row), for row y
RECURSIVE RowText(_, _, _)
RowText(b, y, x) ==
    IF x >= b.width THEN <<>>
    ELSE <<<<"CH", b.cells[<<x, y>>]>>>> \o RowText(b, y, x + 1)

\* Buffer.render: the rows joined by "\n", no trailing newline.
RECURSIVE JoinRows(_, _)
JoinRows(b, y) ==
    IF y >= b.height THEN <<>>
    ELSE (IF y > 0 THEN <<<<"NL">>>> ELSE <<>>) \o RowText(b, y, 0) \o JoinRows(b, y + 1)

BufferRender(b) == JoinRows(b, 0)

\* ------------------------------------------------------------- DiffRenderer
CURSOR_HOME == <<"HOME">>
\* CURSOR_POS.format(row, col)
CURSOR_POS(row, col) == <<"POS", row, col>>

\* DiffRenderer._diff: scan y outer, x inner; cell i of the scan is
\* (i % width, i \div width).  Reads both buffers through Buffer.get.
RECURSIVE DiffFrom(_, _, _)
DiffFrom(old, new, i) ==
    IF i >= new.width * new.height THEN <<>>
    ELSE LET x == i % new.width
             y == i \div new.width
             old_char == BufferGet(old, x, y)
             new_char == BufferGet(new, x, y)
         IN  (IF old_char # new_char THEN <<<<x, y, new_char>>>> ELSE <<>>)
             \o DiffFrom(old, new, i + 1)

Diff(old, new) == DiffFrom(old, new, 0)

\* The sort key of _render_changes: (c[1], c[0]).
KeyLE(a, b) == a[2] < b[2] \/ (a[2] = b[2] /\ a[1] <= b[1])

\* changes.sort(key=...): a stable insertion sort.
RECURSIVE InsertSorted(_, _)
InsertSorted(c, s) ==
    IF s = <<>> THEN <<c>>
    ELSE IF KeyLE(Head(s), c) THEN <<Head(s)>> \o InsertSorted(c, Tail(s))
    ELSE <<c>> \o s

RECURSIVE SortChanges(_)
SortChanges(s) ==
    IF s = <<>> THEN <<>>
    ELSE InsertSorted(s[Len(s)], SortChanges(SubSeq(s, 1, Len(s) - 1)))

\* The loop of _render_changes over the sorted changes.
RECURSIVE EmitNoRowCheck(_, _, _)
EmitNoRowCheck(s, last_x, last_y) ==
    IF s = <<>> THEN <<>>
    ELSE LET x == Head(s)[1]
             y == Head(s)[2]
             char == Head(s)[3]
         IN  (IF x = last_x + 1
              THEN <<<<"CH", char>>>>
              ELSE <<CURSOR_POS(y + 1, x + 1), <<"CH", char>>>>)
             \o EmitNoRowCheck(Tail(s), x, y)

RECURSIVE EmitChanges(_, _, _)
EmitChanges(s, last_x, last_y) ==
    IF s = <<>> THEN <<>>
    ELSE LET x == Head(s)[1]
             y == Head(s)[2]
             char == Head(s)[3]
         IN  (IF y = last_y /\ x = last_x + 1
              THEN <<<<"CH", char>>>>
              ELSE <<CURSOR_POS(y + 1, x + 1), <<"CH", char>>>>)
             \o EmitChanges(Tail(s), x, y)

\* DiffRenderer._render_changes
RenderChanges(changes) == EmitChanges(SortChanges(changes), -1, -1)

\* DiffRenderer.render, the string returned and written
RenderOutput(lb, ff, buffer) ==
    IF ff \/ lb = None
    THEN <<CURSOR_HOME>> \o BufferRender(buffer)
    ELSE RenderChanges(Diff(lb, buffer))

\* DiffRenderer.render, "Store current buffer state"
RenderStore(lb, buffer) ==
    BufferCopyFrom(IF lb = None THEN NewBuffer(buffer.width, buffer.height, <<" ">>) ELSE lb,
                   buffer)

ForceAfterRenderKept(ff, lb) == ff

\* DiffRenderer.render, force_full after the call: cleared by the full branch.
ForceAfterRender(ff, lb) == IF ff \/ lb = None THEN FALSE ELSE ff

\* DiffRenderer.force_redraw
ForceRedrawFlag == TRUE

\* ------------------------------------------------------- terminal emulator
\* A naive full-grid terminal: cursor-home, 1-indexed cursor-position, a printed
\* character overwrites the cell under the cursor and advances one column, a
\* newline goes to the start of the next row.
TermCells == Positions(MaxCells, MaxCells)
BlankTerm == [p \in TermCells |-> " "]

RECURSIVE Feed(_, _, _)
Feed(grid, c, toks) ==
    IF toks = <<>> THEN <<grid, c>>
    ELSE LET t == Head(toks)
         IN  CASE t[1] = "HOME" -> Feed(grid, <<0, 0>>, Tail(toks))
               [] t[1] = "POS" -> Feed(grid, <<t[2] - 1, t[3] - 1>>, Tail(toks))
               [] t[1] = "NL" -> Feed(grid, <<c[1] + 1, 0>>, Tail(toks))
               [] t[1] = "CH" ->
                    Feed(IF <<c[2], c[1]>> \in TermCells
                         THEN [grid EXCEPT ![<<c[2], c[1]>>] = t[2]]
                         ELSE grid,
                         <<c[1], c[2] + 1>>, Tail(toks))
               [] OTHER -> Feed(grid, c, Tail(toks))

\* The emulator's grid shows exactly buffer b (and blanks outside it).
Shows(grid, b) ==
    \A p \in TermCells :
        grid[p] = IF p \in Positions(b.width, b.height) THEN b.cells[p] ELSE " "

\* ------------------------------------------------------------------- state
NoArgs == <<0, 0, <<>>>>

\* The state after construction: a host Buffer(w, h, fill), and
\* AnimationCanvas(width, height) with its DiffRenderer.
InitWith(bufSizes, canvasSizes) ==
    /\ \E s \in bufSizes, fill \in Strs : buf = NewBuffer(s[1], s[2], fill)
    /\ \E s \in canvasSizes :
         /\ back = NewBuffer(s[1], s[2], <<" ">>)
         /\ front = NewBuffer(s[1], s[2], <<" ">>)
    /\ last_buffer = None
    /\ force_full = TRUE
    /\ frame_count = 0
    /\ running = FALSE
    /\ use_alt_screen = TRUE
    /\ in_alt_screen = FALSE
    /\ start_time = NoTime
    /\ last_frame_time = NoTime
    /\ now = 0
    /\ out = <<>>
    /\ got = " "
    /\ op = "init"
    /\ args = NoArgs
    /\ term = BlankTerm
    /\ cur = <<0, 0>>
    /\ rendered = None
    /\ same_size = TRUE
    /\ forced = FALSE
    /\ commits = 0
    /\ particles = <<>>
    /\ kill_out_of_bounds = TRUE
    /\ spawned = <<>>
    /\ last_dt = 0
    /\ next_id = 0
    /\ updated = <<>>
    /\ survivors = <<>>
    /\ total = 0
    /\ elapsed = 0
    /\ steady = TRUE
    /\ alt_entered = FALSE
    /\ slept = 0
    /\ value = <<0, 1>>
    /\ jcanvas = None
    /\ transition = NoScene
    /\ sprite = NoScene
    /\ motion = NoScene
    /\ done = FALSE
    /\ set_calls = <<>>

\* Coordinates tried by the host on an axis of length n: every index and one
\* outside on each side.
Coords(n) == -1 .. n

\* -------------------------------------------------- a host-owned Buffer
\* Buffer(width, height, fill): the host replaces its buffer by a new one
NewBuf(sizes) ==
    /\ \E s \in sizes, fill \in Strs : buf' = NewBuffer(s[1], s[2], fill)
    /\ op' = "new" /\ args' = NoArgs /\ out' = <<>>
    /\ UNCHANGED <<got, canvasVars, last_buffer, force_full, rendered, forced, termVars, particleVars, moreVars>>

\* buf.set(x, y, ch)
Set ==
    /\ \E x \in Coords(buf.width), y \in Coords(buf.height), ch \in Strs :
         /\ buf' = BufferSet(buf, x, y, ch)
         /\ args' = <<x, y, ch>>
    /\ op' = "set" /\ out' = <<>>
    /\ UNCHANGED <<got, canvasVars, last_buffer, force_full, rendered, forced, termVars, particleVars, moreVars>>

\* buf.get(x, y)
Get ==
    /\ \E x \in Coords(buf.width), y \in Coords(buf.height) :
         /\ got' = BufferGet(buf, x, y)
         /\ args' = <<x, y, <<>>>>
    /\ op' = "get" /\ out' = <<>>
    /\ UNCHANGED <<buf, canvasVars, last_buffer, force_full, rendered, forced, termVars, particleVars, moreVars>>

\* buf.clear(fill)
Clear ==
    /\ \E fill \in Chars : buf' = BufferClear(buf, fill)
    /\ op' = "clear" /\ args' = NoArgs /\ out' = <<>>
    /\ UNCHANGED <<got, canvasVars, last_buffer, force_full, rendered, forced, termVars, particleVars, moreVars>>

\* The cells and strings of the edits made between renders: every cell of the
\* buffer and one past its right edge; a one- and a two-character string.
EditCells(b) == Positions(b.width, b.height) \cup {<<b.width, 0>>}
EditStrs == {<<" ">>, <<"x", " ">>}

\* buf.set(x, y, ch) between renders (the arguments are not recorded)
Edit ==
    /\ \E p \in EditCells(buf), ch \in EditStrs : buf' = BufferSet(buf, p[1], p[2], ch)
    /\ op' = "set" /\ out' = <<>>
    /\ UNCHANGED <<got, args, canvasVars, last_buffer, force_full, rendered, forced, termVars, particleVars, moreVars>>

\* ------------------------------------------------ DiffRenderer operations
\* The assignments of DiffRenderer.render(buffer); the emulator is fed the output.
RenderBuffer(buffer) ==
    /\ out' = RenderOutput(last_buffer, force_full, buffer)
    /\ force_full' = ForceAfterRender(force_full, last_buffer)
    /\ last_buffer' = RenderStore(last_buffer, buffer)
    /\ rendered' = buffer
    /\ forced' = FALSE

\* renderer.render(buf)
Render ==
    /\ RenderBuffer(buf)
    /\ same_size' = (same_size /\ (rendered = None \/
                        (rendered.width = buf.width /\ rendered.height = buf.height)))
    \* the emulator follows the outputs as long as the buffers had one size
    /\ LET fed == Feed(term, cur, out')
       IN  IF same_size' THEN term' = fed[1] /\ cur' = fed[2]
           ELSE term' = BlankTerm /\ cur' = <<0, 0>>
    /\ op' = "render"
    /\ UNCHANGED <<bufVars, args, canvasVars, particleVars, moreVars>>

\* renderer.force_redraw()
ForceRedraw ==
    /\ force_full' = ForceRedrawFlag
    /\ forced' = TRUE
    /\ op' = "force" /\ out' = <<>>
    /\ UNCHANGED <<bufVars, args, canvasVars, last_buffer, rendered, termVars, particleVars, moreVars>>

\* ------------------------------------------------ AnimationCanvas operations
\* Escape sequences written by start() and stop().
ENTER_ALT == <<"ALT_ON">>
EXIT_ALT == <<"ALT_OFF">>
HIDE_CURSOR == <<"HIDE">>
SHOW_CURSOR == <<"SHOW">>
CLEAR_SCREEN == <<"CLEAR">>

\* canvas.set(x, y, ch): writes to the back buffer
CanvasSet ==
    /\ \E p \in EditCells(back), ch \in EditStrs : back' = BufferSet(back, p[1], p[2], ch)
    /\ op' = "draw" /\ out' = <<>>
    /\ UNCHANGED <<bufVars, args, front, frame_count, running, use_alt_screen,
                   in_alt_screen, start_time, last_frame_time, now, commits,
                   last_buffer, force_full, rendered, forced, termVars, particleVars, moreVars>>

\* canvas.clear(fill)
CanvasClear ==
    /\ \E fill \in Chars : back' = BufferClear(back, fill)
    /\ op' = "clear" /\ out' = <<>>
    /\ UNCHANGED <<bufVars, args, front, frame_count, running, use_alt_screen,
                   in_alt_screen, start_time, last_frame_time, now, commits,
                   last_buffer, force_full, rendered, forced, termVars, particleVars, moreVars>>

StartFrameCountKept(fc) == fc

\* AnimationCanvas.start: self.frame_count = 0
StartFrameCount(fc) == 0

StartInAltReset(alt, in_alt) == alt

\* AnimationCanvas.start: _in_alt_screen is set when use_alt_screen, never cleared
StartInAlt(alt, in_alt) == IF alt THEN TRUE ELSE in_alt

\* canvas.start(use_alt_screen)
Start ==
    /\ \E alt \in BOOLEAN :
         /\ use_alt_screen' = alt
         /\ in_alt_screen' = StartInAlt(alt, in_alt_screen)
         /\ alt_entered' = (alt_entered \/ alt)
         /\ out' = (IF alt THEN <<ENTER_ALT>> ELSE <<>>) \o <<HIDE_CURSOR, CLEAR_SCREEN>>
    /\ running' = TRUE
    /\ frame_count' = StartFrameCount(frame_count)
    /\ start_time' = now
    /\ last_frame_time' = now
    /\ force_full' = ForceRedrawFlag
    /\ forced' = TRUE
    /\ commits' = 0
    /\ op' = "start"
    /\ UNCHANGED <<bufVars, args, back, front, now, last_buffer, rendered, termVars,
                   particleVars, slept, value, jcanvas, sceneVars>>

\* canvas.stop()
Stop ==
    /\ running' = FALSE
    /\ out' = <<SHOW_CURSOR>> \o (IF in_alt_screen THEN <<EXIT_ALT>> ELSE <<>>)
    /\ in_alt_screen' = FALSE
    /\ alt_entered' = FALSE
    /\ op' = "stop"
    /\ UNCHANGED <<bufVars, args, back, front, frame_count, use_alt_screen, start_time,
                   last_frame_time, now, commits, last_buffer, force_full, rendered,
                   forced, termVars, particleVars, slept, value, jcanvas, sceneVars>>

\* canvas.commit(): render the back buffer, copy it to the front buffer, count the frame
Commit ==
    /\ frame_count < MaxFrames
    /\ RenderBuffer(back)
    /\ front' = BufferCopyFrom(front, back)
    /\ frame_count' = frame_count + 1
    /\ commits' = commits + 1
    /\ op' = "commit"
    /\ UNCHANGED <<bufVars, args, back, running, use_alt_screen, in_alt_screen,
                   start_time, last_frame_time, now, termVars, particleVars, moreVars>>

\* canvas.force_redraw()
CanvasForceRedraw ==
    /\ force_full' = ForceRedrawFlag
    /\ forced' = TRUE
    /\ op' = "force" /\ out' = <<>>
    /\ UNCHANGED <<bufVars, args, canvasVars, last_buffer, rendered, termVars, particleVars, moreVars>>

\* ------------------------------------------- AnimationCanvas drawing API
CanvasSetFront(bk, fr, x, y, ch) == <<bk, BufferSet(fr, x, y, ch)>>

\* AnimationCanvas.set on the pair <<back, front>>: self.back.set(x, y, char)
CanvasSetCell(bk, fr, x, y, ch) == <<BufferSet(bk, x, y, ch), fr>>

\* self.set(x, y, ch) for every <<x, y, ch>> of a sequence, in order
RECURSIVE SetAll(_, _, _)
SetAll(bk, fr, pts) ==
    IF pts = <<>> THEN <<bk, fr>>
    ELSE LET r == CanvasSetCell(bk, fr, pts[1][1], pts[1][2], pts[1][3])
         IN  SetAll(r[1], r[2], Tail(pts))

\* draw_text: for i, char in enumerate(text): self.set(x + i, y, char)
DrawTextPts(x, y, text) == [i \in 1 .. Len(text) |-> <<x + i - 1, y, <<text[i]>>>>]

\* draw_rect: the two horizontal edges column by column, then the two vertical
\* edges row by row
DrawRectPts(x, y, w, h, ch) ==
    [k \in 1 .. 2 * Max(w, 0) |->
        IF k % 2 = 1 THEN <<x + ((k - 1) \div 2), y, ch>>
        ELSE <<x + ((k - 1) \div 2), y + h - 1, ch>>]
    \o
    [k \in 1 .. 2 * Max(h, 0) |->
        IF k % 2 = 1 THEN <<x, y + ((k - 1) \div 2), ch>>
        ELSE <<x + w - 1, y + ((k - 1) \div 2), ch>>]

\* fill_rect: for dy in range(h): for dx in range(w): self.set(x + dx, y + dy, char)
FillRectPts(x, y, w, h, ch) ==
    [k \in 1 .. Max(w, 0) * Max(h, 0) |-> <<x + ((k - 1) % w), y + ((k - 1) \div w), ch>>]

Abs(n) == IF n < 0 THEN -n ELSE n

\* The loop of draw_line from the point (x, y) with the error term err.
RECURSIVE LineFrom(_, _, _, _, _, _, _, _, _, _)
LineFrom(x, y, x2, y2, dx, dy, sx, sy, err, ch) ==
    <<<<x, y, ch>>>> \o
    (IF x = x2 /\ y = y2 THEN <<>>
     ELSE LET e2   == 2 * err
              stepx == e2 > -dy
              err1 == IF stepx THEN err - dy ELSE err
              stepy == e2 < dx
              err2 == IF stepy THEN err1 + dx ELSE err1
          IN  LineFrom(IF stepx THEN x + sx ELSE x, IF stepy THEN y + sy ELSE y,
                       x2, y2, dx, dy, sx, sy, err2, ch))

DrawLinePtsAxisFirst(x1, y1, x2, y2, ch) ==
    LET sx == IF x1 < x2 THEN 1 ELSE -1
        sy == IF y1 < y2 THEN 1 ELSE -1
    IN  [k \in 1 .. Abs(x2 - x1) + 1 |-> <<x1 + sx * (k - 1), y1, ch>>]
        \o [k \in 1 .. Abs(y2 - y1) |-> <<x2, y1 + sy * k, ch>>]

\* draw_line (Bresenham): the cells set, in order
DrawLinePts(x1, y1, x2, y2, ch) ==
    LET dx == Abs(x2 - x1)
        dy == Abs(y2 - y1)
        sx == IF x1 < x2 THEN 1 ELSE -1
        sy == IF y1 < y2 THEN 1 ELSE -1
    IN  LineFrom(x1, y1, x2, y2, dx, dy, sx, sy, dx - dy, ch)

\* core.Canvas.get
CoreCanvasGet(c, x, y) == IF InBounds(c, x, y) THEN c.cells[<<x, y>>] ELSE " "

\* overlay_canvas: the cells of the overlaid Canvas that are not transparent,
\* row by row
OverlayPts(c, x, y, transparent) ==
    SelectSeq([k \in 1 .. c.width * c.height |->
                  <<x + ((k - 1) % c.width), y + ((k - 1) \div c.width),
                    <<CoreCanvasGet(c, (k - 1) % c.width, (k - 1) \div c.width)>>>>],
              LAMBDA p : p[3] # <<transparent>>)

\* The arguments the host draws with on a 2x1 canvas: coordinates on and
\* around it, extents up to one more than its width, texts, 2x1 Canvases.
DrawXs == -1 .. 2
DrawYs == -1 .. 1
DrawCorners == {-1, 0}
DrawWidths == {0, 2, 3}
DrawHeights == {1, 2}
DrawTexts == {<<"x">>, <<" ", "x">>}
DrawEnds == {<<0, 0>>, <<-1, -1>>, <<2, 1>>, <<1, 0>>}
HostCanvases == {[width |-> 2, height |-> 1, cells |-> f] : f \in [Positions(2, 1) -> Chars]}

\* What every drawing operation does with the cells it sets, and leaves alone.
Draw(pts) ==
    /\ LET r == SetAll(back, front, pts) IN back' = r[1] /\ front' = r[2]
    /\ out' = <<>>
    /\ UNCHANGED <<bufVars, args, frame_count, running, use_alt_screen,
                   in_alt_screen, start_time, last_frame_time, now, commits,
                   last_buffer, force_full, rendered, forced, termVars, particleVars,
                   moreVars>>

\* canvas.set(x, y, char), through the canvas
DrawSet ==
    /\ \E x \in DrawXs, y \in DrawYs, ch \in Strs : Draw(<<<<x, y, ch>>>>)
    /\ op' = "set"

\* canvas.draw_text(x, y, text)
DrawText ==
    /\ \E x \in DrawXs, y \in DrawYs, text \in DrawTexts : Draw(DrawTextPts(x, y, text))
    /\ op' = "draw_text"

\* canvas.draw_rect(x, y, w, h, char)
DrawRect ==
    /\ \E x \in DrawCorners, y \in DrawCorners, w \in DrawWidths, h \in DrawHeights :
          Draw(DrawRectPts(x, y, w, h, <<"x">>))
    /\ op' = "draw_rect"

\* canvas.fill_rect(x, y, w, h, char)
FillRect ==
    /\ \E x \in DrawCorners, y \in DrawCorners, w \in DrawWidths, h \in DrawHeights :
          Draw(FillRectPts(x, y, w, h, <<"x">>))
    /\ op' = "fill_rect"

\* canvas.draw_line(x1, y1, x2, y2, char)
DrawLine ==
    /\ \E p1 \in DrawEnds, p2 \in DrawEnds :
          Draw(DrawLinePts(p1[1], p1[2], p2[1], p2[2], <<"x">>))
    /\ op' = "draw_line"

\* canvas.draw_line(x1, y1, x2, y2, "x") from a point inside the canvas or one
\* outside it (above left, right, below) to any point of coordinates
\* -1 .. MaxLineCoord; set_calls records the cells.
MaxLineCoord == 2
LineStarts == {<<0, 0>>, <<-1, -1>>, <<MaxLineCoord, 0>>, <<1, MaxLineCoord>>}
LineEnds == (-1 .. MaxLineCoord) \X (-1 .. MaxLineCoord)
DrawLineTraced ==
    /\ \E p1 \in LineStarts, p2 \in LineEnds :
         LET pts == DrawLinePts(p1[1], p1[2], p2[1], p2[2], <<"x">>)
             r == SetAll(back, front, pts)
         IN  /\ back' = r[1] /\ front' = r[2]
             /\ set_calls' = [i \in 1 .. Len(pts) |-> <<pts[i][1], pts[i][2]>>]
             /\ args' = <<p1, p2>>
    /\ op' = "line" /\ out' = <<>>
    /\ UNCHANGED <<bufVars, frame_count, running, use_alt_screen, in_alt_screen,
                   start_time, last_frame_time, now, commits, last_buffer, force_full,
                   rendered, forced, termVars, particleVars, alt_entered, slept, value,
                   jcanvas, transition, sprite, motion, done>>

\* canvas.overlay_canvas(canvas, x, y, transparent)
OverlayCanvas ==
    /\ \E c \in HostCanvases, x \in DrawCorners, y \in DrawCorners, t \in Chars :
          Draw(OverlayPts(c, x, y, t))
    /\ op' = "overlay_canvas"

\* ------------------------------------------------------ easing functions
\* Floats of the easing functions are exact rationals <<numerator, denominator>>
\* in lowest terms with a positive denominator.
RECURSIVE Gcd(_, _)
Gcd(a, b) == IF b = 0 THEN a ELSE Gcd(b, a % b)

Rat(n, d) ==
    LET g == Gcd(Abs(n), Abs(d))
        sg == IF d < 0 THEN -1 ELSE 1
    IN  <<sg * (n \div g), sg * (d \div g)>>
RInt(n) == <<n, 1>>
RAdd(a, b) == Rat(a[1] * b[2] + b[1] * a[2], a[2] * b[2])
RSub(a, b) == Rat(a[1] * b[2] - b[1] * a[2], a[2] * b[2])
RMul(a, b) == Rat(a[1] * b[1], a[2] * b[2])
RDiv(a, b) == Rat(a[1] * b[2], a[2] * b[1])
RLess(a, b) == a[1] * b[2] < b[1] * a[2]

\* A float that is not a rational (the sine and power of ease_out_elastic).
Irrational == <<0, 0>>

Linear(t) == t
EaseIn(t) == RMul(t, t)
EaseOut(t) == RMul(t, RSub(RInt(2), t))
EaseInOut(t) ==
    IF RLess(t, Rat(1, 2)) THEN RMul(RInt(2), RMul(t, t))
    ELSE RAdd(RInt(-1), RMul(RSub(RInt(4), RMul(RInt(2), t)), t))
EaseInCubic(t) == RMul(t, RMul(t, t))
EaseOutCubic(t) ==
    LET u == RSub(RInt(1), t) IN RSub(RInt(1), RMul(u, RMul(u, u)))
EaseInOutCubic(t) ==
    IF RLess(t, Rat(1, 2)) THEN RMul(RInt(4), RMul(t, RMul(t, t)))
    ELSE LET u == RAdd(RMul(RInt(-2), t), RInt(2))
         IN  RSub(RInt(1), RDiv(RMul(u, RMul(u, u)), RInt(2)))
EaseOutElastic(t) ==
    IF t = RInt(0) THEN RInt(0)
    ELSE IF t = RInt(1) THEN RInt(1)
    ELSE Irrational

EaseOutBounceFlat(t) == RMul(Rat(121, 16), RMul(t, t))

\* ease_out_bounce: n1 = 7.5625 = 121/16, d1 = 2.75 = 11/4
EaseOutBounce(t) ==
    LET n1 == Rat(121, 16)
        d1 == Rat(11, 4)
        sq(u) == RMul(n1, RMul(u, u))
    IN  IF RLess(t, RDiv(RInt(1), d1)) THEN sq(t)
        ELSE IF RLess(t, RDiv(RInt(2), d1))
             THEN RAdd(sq(RSub(t, RDiv(Rat(3, 2), d1))), Rat(3, 4))
        ELSE IF RLess(t, RDiv(Rat(5, 2), d1))
             THEN RAdd(sq(RSub(t, RDiv(Rat(9, 4), d1))), Rat(15, 16))
        ELSE RAdd(sq(RSub(t, RDiv(Rat(21, 8), d1))), Rat(63, 64))

\* The keys of the EASING registry.
EASING == {"linear", "ease_in", "ease_out", "ease_in_out", "ease_in_cubic",
           "ease_out_cubic", "ease_in_out_cubic", "ease_out_elastic", "ease_out_bounce"}

\* get_easing(name): EASING.get(name, linear)
GetEasing(name) == IF name \in EASING THEN name ELSE "linear"

\* Calling the function a registry key stands for.
Ease(fn, t) ==
    CASE fn = "linear" -> Linear(t)
      [] fn = "ease_in" -> EaseIn(t)
      [] fn = "ease_out" -> EaseOut(t)
      [] fn = "ease_in_out" -> EaseInOut(t)
      [] fn = "ease_in_cubic" -> EaseInCubic(t)
      [] fn = "ease_out_cubic" -> EaseOutCubic(t)
      [] fn = "ease_in_out_cubic" -> EaseInOutCubic(t)
      [] fn = "ease_out_elastic" -> EaseOutElastic(t)
      [] fn = "ease_out_bounce" -> EaseOutBounce(t)

\* core.lerp: a + (b - a) * t
Lerp(a, b, t) == RAdd(a, RMul(RSub(b, a), t))

\* The names and arguments the host calls the easing functions with: every
\* registry key and two names that are not keys; t = k/d for d up to MaxDen.
MaxDen == 5
EasingArgs == EASING \cup {"", "bounce"}
UnitRats == {Rat(k, d) : k \in 0 .. MaxDen, d \in 1 .. MaxDen} \cap
            {r \in (0 .. MaxDen) \X (1 .. MaxDen) : r[1] <= r[2]}

\* get_easing(name)(t)
EaseCall ==
    /\ \E name \in EasingArgs, t \in UnitRats :
         /\ value' = Ease(GetEasing(name), t)
         /\ args' = <<name, t>>
    /\ op' = "ease" /\ out' = <<>>
    /\ UNCHANGED <<bufVars, canvasVars, last_buffer, force_full, rendered, forced,
                   termVars, particleVars, alt_entered, slept, jcanvas, sceneVars>>

\* ----------------------------------------------------- Particle (particles.py)
\* Floats are kept on a fixed-point grid: One is 1.0.  Times (dt, lifetime) and
\* velocities are in units of 1/One, positions and the spawn accumulator in
\* units of 1/(One*One), spawn rates in units of 1/One; gravity, gravity_scale
\* and drag are whole numbers.  Every product below is then exact.
One == 2
Unit2 == One * One

\* Particle(...) and __post_init__; id, born and age are history tags: the
\* position in append order, the lifetime at construction, the sum of dt applied.
NewParticle(x, y, vx, vy, lifetime, max_lifetime, char, char_sequence, gravity_scale, drag, fade) ==
    [x |-> x, y |-> y, vx |-> vx, vy |-> vy, lifetime |-> lifetime,
     max_lifetime |-> IF max_lifetime <= 0 THEN lifetime ELSE max_lifetime,
     char |-> char, char_sequence |-> char_sequence, gravity_scale |-> gravity_scale,
     drag |-> drag, fade |-> fade,
     id |-> 0, born |-> lifetime, age |-> 0]

AliveOrZero(p) == p.lifetime >= 0

\* Particle.alive
Alive(p) == p.lifetime > 0

ParticleUpdateOldVelocity(p, dt, gravity) ==
    [p EXCEPT !.vx = p.vx * p.drag,
              !.vy = (p.vy + gravity * p.gravity_scale * dt) * p.drag,
              !.x = p.x + p.vx * dt, !.y = p.y + p.vy * dt,
              !.lifetime = p.lifetime - dt,
              !.age = p.age + dt]

\* Particle.update(dt, gravity)
ParticleUpdate(p, dt, gravity) ==
    LET vy1 == p.vy + gravity * p.gravity_scale * dt
        vx2 == p.vx * p.drag
        vy2 == vy1 * p.drag
    IN  [p EXCEPT !.vx = vx2, !.vy = vy2,
                  !.x = p.x + vx2 * dt, !.y = p.y + vy2 * dt,
                  !.lifetime = p.lifetime - dt,
                  !.age = p.age + dt]

\* ---------------------------------------------------------- ParticleEmitter
\* ParticleEmitter(...): vels stands for direction, spread, speed_min and
\* speed_max, as the set of velocities spawn_particle() can draw.
NewEmitter(x, y, spawn_rate, vels, lifetime_min, lifetime_max, active) ==
    [x |-> x, y |-> y, spawn_rate |-> spawn_rate, vels |-> vels,
     lifetime_min |-> lifetime_min, lifetime_max |-> lifetime_max,
     char |-> "*", char_sequence |-> <<>>, gravity_scale |-> 1, drag |-> 1,
     fade |-> TRUE, burst_count |-> 0, active |-> active, acc |-> 0]

\* What one spawn_particle() call can draw: a velocity and a lifetime.
Draws(em) == em.vels \X (em.lifetime_min .. em.lifetime_max)

\* ParticleEmitter.spawn_particle, for the draw d
SpawnParticle(em, d) ==
    NewParticle(em.x, em.y, d[1][1], d[1][2], d[2], d[2], em.char, em.char_sequence,
                em.gravity_scale, em.drag, em.fade)

\* The while loop of ParticleEmitter.update: <<accumulator, particles spawned>>.
RECURSIVE SpawnLoop(_, _)
SpawnLoop(acc, n) ==
    IF acc >= Unit2 THEN SpawnLoop(acc - Unit2, n + 1) ELSE <<acc, n>>

EmitterStepAlways(em, dt) == SpawnLoop(em.acc + dt * em.spawn_rate, 0)

EmitterStepOnce(em, dt) ==
    IF ~em.active \/ em.spawn_rate <= 0 THEN <<em.acc, 0>>
    ELSE LET a == em.acc + dt * em.spawn_rate
         IN  IF a >= Unit2 THEN <<a - Unit2, 1>> ELSE <<a, 0>>

EmitterStepReset(em, dt) ==
    IF ~em.active \/ em.spawn_rate <= 0 THEN <<em.acc, 0>>
    ELSE <<0, SpawnLoop(em.acc + dt * em.spawn_rate, 0)[2]>>

\* ParticleEmitter.update(dt): <<accumulator after the call, particles spawned>>.
EmitterStep(em, dt) ==
    IF ~em.active \/ em.spawn_rate <= 0 THEN <<em.acc, 0>>
    ELSE SpawnLoop(em.acc + dt * em.spawn_rate, 0)

\* The lists of n particles the emitter can return.
SpawnLists(em, n) ==
    {[i \in 1 .. n |-> SpawnParticle(em, d[i])] : d \in [1 .. n -> Draws(em)]}

\* ----------------------------------------------------------- ParticleCanvas
\* ParticleCanvas.__init__: gravity, bounds_margin; frame_time = 1 / fps with
\* fps = One frames a second.
Gravity == 20
BoundsMargin == 5
FrameTime == 1

\* particles.append / particles.extend, tagging the new entries in append order
RECURSIVE AppendAll(_, _, _)
AppendAll(pool, ps, id) ==
    IF ps = <<>> THEN pool
    ELSE AppendAll(pool \o <<[Head(ps) EXCEPT !.id = id + 1]>>, Tail(ps), id + 1)

ParticleAliveInclusive(p, kill, width, height) ==
    IF ~Alive(p) THEN FALSE
    ELSE IF kill /\ (\/ p.x < -BoundsMargin * Unit2
                     \/ p.x > (width + BoundsMargin) * Unit2
                     \/ p.y < -BoundsMargin * Unit2
                     \/ p.y > (height + BoundsMargin) * Unit2)
         THEN FALSE
         ELSE TRUE

\* ParticleCanvas._particle_alive for a canvas of the given width and height
ParticleAlive(p, kill, width, height) ==
    IF ~Alive(p) THEN FALSE
    ELSE IF kill /\ (\/ p.x < -BoundsMargin * Unit2
                     \/ p.x >= (width + BoundsMargin) * Unit2
                     \/ p.y < -BoundsMargin * Unit2
                     \/ p.y >= (height + BoundsMargin) * Unit2)
         THEN FALSE
         ELSE TRUE

RECURSIVE FilterPrepend(_, _, _, _)
FilterPrepend(ps, kill, width, height) ==
    IF ps = <<>> THEN <<>>
    ELSE FilterPrepend(Tail(ps), kill, width, height)
         \o (IF ParticleAlive(Head(ps), kill, width, height) THEN <<Head(ps)>> ELSE <<>>)

\* [p for p in self.particles if self._particle_alive(p)]
RECURSIVE Filter(_, _, _, _)
Filter(ps, kill, width, height) ==
    IF ps = <<>> THEN <<>>
    ELSE (IF ParticleAlive(Head(ps), kill, width, height) THEN <<Head(ps)>> ELSE <<>>)
         \o Filter(Tail(ps), kill, width, height)

KeepFirst(ps, n) == SubSeq(ps, 1, n)

KeepLastStrict(ps, n) == SubSeq(ps, Len(ps) - n + 1, Len(ps))

\* self.particles[-self.max_particles:] for max_particles >= 0: Python reads
\* [-0:] as [0:], the whole list.
KeepLast(ps, n) ==
    IF n = 0 THEN ps
    ELSE SubSeq(ps, Max(1, Len(ps) - n + 1), Len(ps))

\* "Enforce max particle limit"
Enforce(ps, n) == IF Len(ps) > n THEN KeepLast(ps, n) ELSE ps

animVars == <<buf, got, args, canvasVars, last_buffer, force_full, out, rendered,
              forced, termVars>>

\* dt of 1 .. MaxDt ticks, or omitted (None)
MaxDt == 2
NoDt == 0
DtArgs == {NoDt} \cup (1 .. MaxDt)

\* Particles handed to add_particle by the host.
\* lifetimes of 1 .. MaxLife ticks; at rest, or fast enough to leave the
\* margin in one tick, or falling under gravity.
MaxLife == 2
FastV == 15 * One
HostParticles ==
    {NewParticle(0, 0, 0, 0, l, l, "*", <<>>, 0, 1, TRUE) : l \in 1 .. MaxLife}
    \cup {NewParticle(0, 0, FastV, 0, MaxLife, 0, "*", <<>>, 0, 1, TRUE),
          NewParticle(0, 0, 0, 0, MaxLife + 1, 0, "*", <<>>, 1, 1, TRUE)}

\* Emitters built by the host: rates of -0.5, 0, 0.5 and 2.5 particles a second.
Rates == {-1, 0, 1, 5}
\* The emitter of a canvas: 1.5 particles a second, at rest, living one tick.
CanvasEmitters == {NewEmitter(0, 0, 3, {<<0, 0>>}, 1, 1, TRUE)}
HostEmitters ==
    {NewEmitter(0, 0, r, {<<0, 0>>, <<FastV, 0>>}, 1, 1, a) : r \in Rates, a \in BOOLEAN}
\* Emitters aimed in one direction (spread = 0), with rates of 0.5, 1.5, 2.5
\* and 6 particles a second.
SpawnRates == {1, 3, 5, 12}
SpawnEmitters == {NewEmitter(0, 0, r, {<<FastV, 0>>}, 1, 1, TRUE) : r \in SpawnRates}

\* The pool holds at most MaxPool particles before a call that adds some, and
\* at most MaxIds particles are ever appended.
MaxPool == 2
MaxIds == 3
MaxCap == 2

\* canvas.add_particle(p)
AddParticle ==
    /\ Len(particles) < MaxPool /\ next_id < MaxIds
    /\ \E p \in HostParticles : particles' = AppendAll(particles, <<p>>, next_id)
    /\ next_id' = next_id + 1
    /\ op' = "add_particle" /\ updated' = <<>> /\ survivors' = <<>> /\ last_dt' = 0
    /\ UNCHANGED <<animVars, moreVars, max_particles, kill_out_of_bounds, emitters, spawned, total,
                   elapsed, steady>>

\* Particles that stray from a 2 x 2 canvas in one tick of half a second: onto
\* the last position inside the margin on the left and at the bottom, onto
\* the first outside it on the right and at the top, or not at all; they live
\* StrayLife ticks, without gravity or drag.
StrayLife == 3
StrayVelocities ==
    {<<0, 0>>, <<-BoundsMargin * Unit2, 0>>, <<(2 + BoundsMargin) * Unit2, 0>>,
     <<0, -BoundsMargin * Unit2 - 1>>, <<0, (2 + BoundsMargin) * Unit2 - 1>>}
StrayParticles ==
    {NewParticle(0, 0, v[1], v[2], StrayLife, 0, "*", <<>>, 0, 1, TRUE) : v \in StrayVelocities}

\* canvas.add_particle(p), p one of the straying particles
AddStray ==
    /\ Len(particles) < MaxPool /\ next_id < MaxIds
    /\ \E p \in StrayParticles : particles' = AppendAll(particles, <<p>>, next_id)
    /\ next_id' = next_id + 1
    /\ op' = "add_particle" /\ updated' = <<>> /\ survivors' = <<>> /\ last_dt' = 0
    /\ UNCHANGED <<animVars, moreVars, max_particles, kill_out_of_bounds, emitters, spawned, total,
                   elapsed, steady>>

\* Particles of a crowded canvas: short-lived, long-lived, and long-lived but
\* fast enough to leave the margin in one tick; no gravity, no drag.
LongLife == 3
CrowdParticles ==
    {NewParticle(0, 0, 0, 0, 1, 0, "*", <<>>, 0, 1, TRUE),
     NewParticle(0, 0, 0, 0, LongLife, 0, "*", <<>>, 0, 1, TRUE),
     NewParticle(0, 0, FastV, 0, LongLife, 0, "*", <<>>, 0, 1, TRUE)}
\* An emitter of 2 particles a second that live LongLife ticks, at rest.
CrowdEmitters == {NewEmitter(0, 0, 2 * One, {<<0, 0>>}, LongLife, LongLife, TRUE)}

\* canvas.add_particle(p), p one of the particles above
AddCrowd ==
    /\ Len(particles) < MaxPool /\ next_id < MaxIds
    /\ \E p \in CrowdParticles : particles' = AppendAll(particles, <<p>>, next_id)
    /\ next_id' = next_id + 1
    /\ op' = "add_particle" /\ updated' = <<>> /\ survivors' = <<>> /\ last_dt' = 0
    /\ UNCHANGED <<animVars, moreVars, max_particles, kill_out_of_bounds, emitters, spawned, total,
                   elapsed, steady>>

\* canvas.add_particles(ps), ps a list of two of the particles above
AddParticles ==
    /\ Len(particles) < MaxPool /\ next_id + 2 <= MaxIds
    /\ \E p \in CrowdParticles, q \in CrowdParticles :
         particles' = AppendAll(particles, <<p, q>>, next_id)
    /\ next_id' = next_id + 2
    /\ op' = "add_particles" /\ updated' = <<>> /\ survivors' = <<>> /\ last_dt' = 0
    /\ UNCHANGED <<animVars, moreVars, max_particles, kill_out_of_bounds, emitters, spawned, total,
                   elapsed, steady>>

\* What emit_burst can draw for one particle: a velocity, from direction,
\* spread and the speed range (here speed_min = speed_max = 0), and a lifetime
\* of lifetime * uniform(0.7, 1.3).
BurstDraws == {<<0, 0>>} \X {1, LongLife}

\* The Particle emit_burst builds for the draw d (char_sequence None, so fade off)
BurstParticle(x, y, d, gravity_scale, drag) ==
    NewParticle(x, y, d[1][1], d[1][2], d[2], d[2], "*", <<>>, gravity_scale, drag, FALSE)

\* canvas.emit_burst(0, 0, count, speed_min=0, speed_max=0, gravity_scale=0,
\* drag=1): count add_particle calls
EmitBurst ==
    \E count \in 0 .. 2 :
      /\ Len(particles) < MaxPool /\ next_id + count <= MaxIds
      /\ \E ds \in [1 .. count -> BurstDraws] :
           particles' = AppendAll(particles,
                                  [i \in 1 .. count |-> BurstParticle(0, 0, ds[i], 0, 1)],
                                  next_id)
      /\ next_id' = next_id + count
      /\ op' = "emit_burst" /\ updated' = <<>> /\ survivors' = <<>> /\ last_dt' = 0
      /\ UNCHANGED <<animVars, moreVars, max_particles, kill_out_of_bounds, emitters, spawned,
                     total, elapsed, steady>>

\* canvas.add_emitter(e), e the emitter above, on a canvas that has no emitter yet
AddCrowdEmitter ==
    /\ emitters = <<>>
    /\ \E e \in CrowdEmitters : emitters' = <<e>>
    /\ op' = "add_emitter" /\ updated' = <<>> /\ survivors' = <<>> /\ last_dt' = 0
    /\ UNCHANGED <<animVars, moreVars, particles, max_particles, kill_out_of_bounds, next_id,
                   spawned, total, elapsed, steady>>

\* canvas.clear_particles()
ClearParticles ==
    /\ particles' = <<>>
    /\ op' = "clear_particles" /\ updated' = <<>> /\ survivors' = <<>> /\ last_dt' = 0
    /\ UNCHANGED <<animVars, moreVars, max_particles, kill_out_of_bounds, next_id, emitters, spawned,
                   total, elapsed, steady>>

\* canvas.add_emitter(e), on a canvas that has no emitter yet
AddEmitter ==
    /\ emitters = <<>>
    /\ \E e \in CanvasEmitters : emitters' = <<e>>
    /\ op' = "add_emitter" /\ updated' = <<>> /\ survivors' = <<>> /\ last_dt' = 0
    /\ UNCHANGED <<animVars, moreVars, particles, max_particles, kill_out_of_bounds, next_id,
                   spawned, total, elapsed, steady>>

\* canvas.clear_emitters()
ClearEmitters ==
    /\ emitters' = <<>>
    /\ op' = "clear_emitters" /\ updated' = <<>> /\ survivors' = <<>> /\ last_dt' = 0
    /\ UNCHANGED <<animVars, moreVars, particles, max_particles, kill_out_of_bounds, next_id,
                   spawned, total, elapsed, steady>>

\* canvas.kill_out_of_bounds = b
SetKill ==
    /\ kill_out_of_bounds' = ~kill_out_of_bounds
    /\ op' = "set_kill" /\ updated' = <<>> /\ survivors' = <<>> /\ last_dt' = 0
    /\ UNCHANGED <<animVars, moreVars, particles, max_particles, next_id, emitters, spawned, total,
                   elapsed, steady>>

\* canvas.update_particles(dt)
UpdateParticles ==
    \E a \in DtArgs :
      LET dt == IF a = NoDt THEN FrameTime ELSE a
          \* the emitters (at most one), updated in order
          st == IF emitters = <<>> THEN <<0, 0>> ELSE EmitterStep(emitters[1], dt)
      IN  /\ next_id + st[2] <= MaxIds
          /\ \E new \in (IF emitters = <<>> THEN {<<>>} ELSE SpawnLists(emitters[1], st[2])) :
               LET extended == AppendAll(particles, new, next_id)
                   moved == [i \in 1 .. Len(extended) |->
                               ParticleUpdate(extended[i], dt, Gravity)]
                   kept == Filter(moved, kill_out_of_bounds, back.width, back.height)
               IN  /\ updated' = moved
                   /\ survivors' = kept
                   /\ particles' = Enforce(kept, max_particles)
          /\ emitters' = IF emitters = <<>> THEN <<>>
                         ELSE <<[emitters[1] EXCEPT !.acc = st[1]]>>
          /\ next_id' = next_id + st[2]
          /\ last_dt' = dt
          /\ op' = "update_particles"
          /\ UNCHANGED <<animVars, moreVars, max_particles, kill_out_of_bounds, spawned, total,
                         elapsed, steady>>

\* --------------------------------------------- a ParticleEmitter on its own
\* The emitter's clock runs for at most MaxElapsed ticks.
MaxElapsed == 6

\* emitter.update(dt)
EmitterUpdate ==
    \E dt \in 1 .. MaxDt :
      LET em == emitters[1]
          st == EmitterStep(em, dt)
      IN  /\ elapsed + dt <= MaxElapsed
          /\ \E new \in SpawnLists(em, st[2]) : spawned' = new
          /\ emitters' = <<[em EXCEPT !.acc = st[1]]>>
          /\ total' = total + st[2]
          /\ elapsed' = elapsed + dt
          /\ last_dt' = dt
          /\ op' = "emitter_update"
          /\ UNCHANGED <<animVars, moreVars, poolVars, steady>>

BurstStepDrain(em, count) == <<0, count>>

\* ParticleEmitter.burst(count): <<accumulator after the call, particles spawned>>.
BurstStep(em, count) == <<em.acc, count>>

\* emitter.burst(count)
EmitterBurst ==
    \E count \in 0 .. 2 :
      LET em == emitters[1]
          st == BurstStep(em, count)
      IN  /\ \E new \in SpawnLists(em, st[2]) : spawned' = new
          /\ emitters' = <<[em EXCEPT !.acc = st[1]]>>
          /\ args' = <<count>>
          /\ steady' = FALSE
          /\ op' = "burst"
          /\ UNCHANGED <<buf, got, canvasVars, last_buffer, force_full, out, rendered,
                         forced, termVars, moreVars, poolVars, last_dt, total, elapsed>>

\* emitter.active = not emitter.active
EmitterToggle ==
    /\ emitters' = <<[emitters[1] EXCEPT !.active = ~emitters[1].active]>>
    /\ steady' = FALSE
    /\ op' = "set_active"
    /\ UNCHANGED <<animVars, moreVars, poolVars, spawned, last_dt, total, elapsed>>

\* emitter.spawn_rate = r
EmitterSetRate ==
    /\ \E r \in Rates \ {emitters[1].spawn_rate} :
         emitters' = <<[emitters[1] EXCEPT !.spawn_rate = r]>>
    /\ steady' = FALSE
    /\ op' = "set_rate"
    /\ UNCHANGED <<animVars, moreVars, poolVars, spawned, last_dt, total, elapsed>>

\* ------------------------------------------------- one Particle, stepped
\* The particles the host steps by hand: at rest or moving right and up, with
\* and without gravity, drag 1.0 or 0, living half a second or one.
StepParticles ==
    {NewParticle(0, 0, vx, vy, l, l, "*", <<>>, gs, drag, TRUE) :
        vx \in {0, One}, vy \in {0, -One}, l \in {1, One}, gs \in {0, 1}, drag \in {0, 1}}
Gravities == {0, 10}
MaxAge == 3

\* p = Particle(...)
ParticleNew ==
    /\ particles = <<>>
    /\ \E p \in StepParticles : particles' = <<p>>
    /\ op' = "new_particle" /\ args' = NoArgs
    /\ UNCHANGED <<buf, got, canvasVars, last_buffer, force_full, out, rendered, forced,
                   termVars, moreVars, max_particles, kill_out_of_bounds, next_id,
                   updated, survivors, emitterVars>>

\* p.update(dt, gravity)
ParticleStep ==
    /\ particles # <<>>
    /\ particles[1].age < MaxAge
    /\ \E dt \in 1 .. MaxDt, g \in Gravities :
         /\ particles' = <<ParticleUpdate(particles[1], dt, g)>>
         /\ args' = <<dt, g>>
    /\ op' = "update"
    /\ UNCHANGED <<buf, got, canvasVars, last_buffer, force_full, out, rendered, forced,
                   termVars, moreVars, max_particles, kill_out_of_bounds, next_id,
                   updated, survivors, emitterVars>>

\* ------------------------------------------ ParticleCanvas.render_particles
\* core.clamp
Clamp(v, lo, hi) == Max(lo, Min(hi, v))

\* Particle.life_ratio, a rational
LifeRatio(p) ==
    IF p.max_lifetime <= 0 THEN RInt(0)
    ELSE LET r == Rat(p.lifetime, p.max_lifetime)
         IN  IF RLess(r, RInt(0)) THEN RInt(0)
             ELSE IF RLess(RInt(1), r) THEN RInt(1) ELSE r

\* int(): truncation towards zero of n/d, d > 0
Trunc(n, d) == IF n >= 0 THEN n \div d ELSE -((-n) \div d)

GetCharRising(p) ==
    IF p.char_sequence # <<>> /\ p.fade
    THEN LET last == Len(p.char_sequence) - 1
             f == RMul(LifeRatio(p), RInt(last))
             idx == Clamp(Trunc(f[1], f[2]), 0, last)
         IN  p.char_sequence[idx + 1]
    ELSE p.char

\* Particle.get_char
GetChar(p) ==
    IF p.char_sequence # <<>> /\ p.fade
    THEN LET last == Len(p.char_sequence) - 1
             f == RMul(RSub(RInt(1), LifeRatio(p)), RInt(last))
             idx == Clamp(Trunc(f[1], f[2]), 0, last)
         IN  p.char_sequence[idx + 1]
    ELSE p.char

\* Particles built by the host with lifetime and max_lifetime of 0 to
\* MaxFadeLife half seconds (max_lifetime 0: __post_init__ takes the
\* lifetime), a char_sequence of 0 to 4 characters, fade on or off.
MaxFadeLife == 3
FadeSeqs == {<<>>, <<"a">>, <<"a", "b">>, <<"a", "b", "c">>, <<"a", "b", "c", "d">>}
FadeParticles ==
    {NewParticle(0, 0, 0, 0, l, m, "*", seq, 0, 1, fade) :
        l \in 0 .. MaxFadeLife, m \in 0 .. MaxFadeLife, seq \in FadeSeqs, fade \in BOOLEAN}

\* p = Particle(...)
FadeNew ==
    /\ particles = <<>>
    /\ \E p \in FadeParticles : particles' = <<p>>
    /\ op' = "new_particle" /\ args' = NoArgs
    /\ UNCHANGED <<buf, got, canvasVars, last_buffer, force_full, out, rendered, forced,
                   termVars, moreVars, max_particles, kill_out_of_bounds, next_id,
                   updated, survivors, emitterVars>>

\* p.get_char()
GetCharCall ==
    /\ particles # <<>>
    /\ got' = GetChar(particles[1])
    /\ op' = "get_char" /\ args' = NoArgs
    /\ UNCHANGED <<buf, canvasVars, last_buffer, force_full, out, rendered, forced,
                   termVars, moreVars, particleVars>>

\* char.strip() is empty
Blank(c) == c = " "

RECURSIVE RenderPtsAll(_, _, _)
RenderPtsAll(ps, width, height) ==
    IF ps = <<>> THEN <<>>
    ELSE LET x == Trunc(Head(ps).x, Unit2)
             y == Trunc(Head(ps).y, Unit2)
             rest == RenderPtsAll(Tail(ps), width, height)
         IN  IF 0 <= x /\ x < width /\ 0 <= y /\ y < height
             THEN <<<<x, y, <<GetChar(Head(ps))>>>>>> \o rest
             ELSE rest

\* The loop of render_particles: the self.set calls it makes, in pool order
RECURSIVE RenderPts(_, _, _)
RenderPts(ps, width, height) ==
    IF ps = <<>> THEN <<>>
    ELSE LET x == Trunc(Head(ps).x, Unit2)
             y == Trunc(Head(ps).y, Unit2)
             rest == RenderPts(Tail(ps), width, height)
         IN  IF 0 <= x /\ x < width /\ 0 <= y /\ y < height /\ ~Blank(GetChar(Head(ps)))
             THEN <<<<x, y, <<GetChar(Head(ps))>>>>>> \o rest
             ELSE rest

\* The particles the host adds before rendering: left of the origin by half a
\* cell, inside the second cell, right of the canvas, above it; drawn as "*",
\* as the first character of a fade sequence, or (lifetime 0) as its blank last.
DrawnInside == {<<-One, 0>>, <<Unit2 + 1, Unit2 - 1>>}
DrawnOutside == {<<2 * Unit2, 0>>, <<0, -Unit2 - 1>>}
FadeSeq == <<"o", " ">>
DrawnParticles ==
    {NewParticle(a[1], a[2], 0, 0, One, One, "*", <<>>, 0, 1, TRUE) :
        a \in DrawnInside \cup DrawnOutside}
    \cup {NewParticle(a[1], a[2], 0, 0, l, l, "*", FadeSeq, 0, 1, TRUE) :
             a \in DrawnInside, l \in {0, One}}

\* canvas.add_particle(p), p one of the particles above
AddDrawn ==
    /\ Len(particles) < MaxPool /\ next_id < MaxIds
    /\ \E p \in DrawnParticles : particles' = AppendAll(particles, <<p>>, next_id)
    /\ next_id' = next_id + 1
    /\ op' = "add_particle" /\ updated' = <<>> /\ survivors' = <<>> /\ last_dt' = 0
    /\ UNCHANGED <<animVars, moreVars, max_particles, kill_out_of_bounds, emitters,
                   spawned, total, elapsed, steady>>

\* canvas.render_particles()
RenderParticles ==
    /\ LET r == SetAll(back, front, RenderPts(particles, back.width, back.height))
       IN  back' = r[1] /\ front' = r[2]
    /\ op' = "render_particles" /\ out' = <<>>
    /\ UNCHANGED <<bufVars, args, frame_count, running, use_alt_screen,
                   in_alt_screen, start_time, last_frame_time, now, commits,
                   last_buffer, force_full, rendered, forced, termVars, particleVars,
                   moreVars>>

\* ------------------------------------------------- junctions (junctions.py)
\* Characters outside ASCII are written by code point: "u2500" is U+2500.
\* The direction bitmask is the set of its flags; | is set union.
UP == {"U"}
DOWN == {"D"}
LEFT == {"L"}
RIGHT == {"R"}

CHAR_TO_DIRS ==
    ("u2500" :> (LEFT \cup RIGHT)) @@
    ("-" :> (LEFT \cup RIGHT)) @@
    ("u2501" :> (LEFT \cup RIGHT)) @@
    ("u2502" :> (UP \cup DOWN)) @@
    ("|" :> (UP \cup DOWN)) @@
    ("u2503" :> (UP \cup DOWN)) @@
    ("u250C" :> (DOWN \cup RIGHT)) @@
    ("u2510" :> (DOWN \cup LEFT)) @@
    ("u2514" :> (UP \cup RIGHT)) @@
    ("u2518" :> (UP \cup LEFT)) @@
    ("u250F" :> (DOWN \cup RIGHT)) @@
    ("u2513" :> (DOWN \cup LEFT)) @@
    ("u2517" :> (UP \cup RIGHT)) @@
    ("u251B" :> (UP \cup LEFT)) @@
    ("u251C" :> (UP \cup DOWN \cup RIGHT)) @@
    ("u2524" :> (UP \cup DOWN \cup LEFT)) @@
    ("u252C" :> (DOWN \cup LEFT \cup RIGHT)) @@
    ("u2534" :> (UP \cup LEFT \cup RIGHT)) @@
    ("u2523" :> (UP \cup DOWN \cup RIGHT)) @@
    ("u252B" :> (UP \cup DOWN \cup LEFT)) @@
    ("u2533" :> (DOWN \cup LEFT \cup RIGHT)) @@
    ("u253B" :> (UP \cup LEFT \cup RIGHT)) @@
    ("u253C" :> (UP \cup DOWN \cup LEFT \cup RIGHT)) @@
    ("+" :> (UP \cup DOWN \cup LEFT \cup RIGHT)) @@
    ("u254B" :> (UP \cup DOWN \cup LEFT \cup RIGHT)) @@
    ("u2550" :> (LEFT \cup RIGHT)) @@
    ("u2551" :> (UP \cup DOWN)) @@
    ("u2554" :> (DOWN \cup RIGHT)) @@
    ("u2557" :> (DOWN \cup LEFT)) @@
    ("u255A" :> (UP \cup RIGHT)) @@
    ("u255D" :> (UP \cup LEFT)) @@
    ("u2560" :> (UP \cup DOWN \cup RIGHT)) @@
    ("u2563" :> (UP \cup DOWN \cup LEFT)) @@
    ("u2566" :> (DOWN \cup LEFT \cup RIGHT)) @@
    ("u2569" :> (UP \cup LEFT \cup RIGHT)) @@
    ("u256C" :> (UP \cup DOWN \cup LEFT \cup RIGHT)) @@
    ("u2574" :> (LEFT)) @@
    ("u2575" :> (UP)) @@
    ("u2576" :> (RIGHT)) @@
    ("u2577" :> (DOWN))

DIRS_TO_CHAR ==
    ((LEFT \cup RIGHT) :> "u2500") @@
    ((UP \cup DOWN) :> "u2502") @@
    ((DOWN \cup RIGHT) :> "u250C") @@
    ((DOWN \cup LEFT) :> "u2510") @@
    ((UP \cup RIGHT) :> "u2514") @@
    ((UP \cup LEFT) :> "u2518") @@
    ((UP \cup DOWN \cup RIGHT) :> "u251C") @@
    ((UP \cup DOWN \cup LEFT) :> "u2524") @@
    ((DOWN \cup LEFT \cup RIGHT) :> "u252C") @@
    ((UP \cup LEFT \cup RIGHT) :> "u2534") @@
    ((UP \cup DOWN \cup LEFT \cup RIGHT) :> "u253C") @@
    ((LEFT) :> "u2574") @@
    ((UP) :> "u2575") @@
    ((RIGHT) :> "u2576") @@
    ((DOWN) :> "u2577") @@
    (({}) :> " ")

DIRS_TO_CHAR_HEAVY ==
    ((LEFT \cup RIGHT) :> "u2501") @@
    ((UP \cup DOWN) :> "u2503") @@
    ((DOWN \cup RIGHT) :> "u250F") @@
    ((DOWN \cup LEFT) :> "u2513") @@
    ((UP \cup RIGHT) :> "u2517") @@
    ((UP \cup LEFT) :> "u251B") @@
    ((UP \cup DOWN \cup RIGHT) :> "u2523") @@
    ((UP \cup DOWN \cup LEFT) :> "u252B") @@
    ((DOWN \cup LEFT \cup RIGHT) :> "u2533") @@
    ((UP \cup LEFT \cup RIGHT) :> "u253B") @@
    ((UP \cup DOWN \cup LEFT \cup RIGHT) :> "u254B") @@
    (({}) :> " ")

DIRS_TO_CHAR_DOUBLE ==
    ((LEFT \cup RIGHT) :> "u2550") @@
    ((UP \cup DOWN) :> "u2551") @@
    ((DOWN \cup RIGHT) :> "u2554") @@
    ((DOWN \cup LEFT) :> "u2557") @@
    ((UP \cup RIGHT) :> "u255A") @@
    ((UP \cup LEFT) :> "u255D") @@
    ((UP \cup DOWN \cup RIGHT) :> "u2560") @@
    ((UP \cup DOWN \cup LEFT) :> "u2563") @@
    ((DOWN \cup LEFT \cup RIGHT) :> "u2566") @@
    ((UP \cup LEFT \cup RIGHT) :> "u2569") @@
    ((UP \cup DOWN \cup LEFT \cup RIGHT) :> "u256C") @@
    (({}) :> " ")

DIRS_TO_CHAR_ASCII ==
    ((LEFT \cup RIGHT) :> "-") @@
    ((UP \cup DOWN) :> "|") @@
    ((DOWN \cup RIGHT) :> "+") @@
    ((DOWN \cup LEFT) :> "+") @@
    ((UP \cup RIGHT) :> "+") @@
    ((UP \cup LEFT) :> "+") @@
    ((UP \cup DOWN \cup RIGHT) :> "+") @@
    ((UP \cup DOWN \cup LEFT) :> "+") @@
    ((DOWN \cup LEFT \cup RIGHT) :> "+") @@
    ((UP \cup LEFT \cup RIGHT) :> "+") @@
    ((UP \cup DOWN \cup LEFT \cup RIGHT) :> "+") @@
    (({}) :> " ")

\* get_directions(char)
GetDirections(char) == IF char \in DOMAIN CHAR_TO_DIRS THEN CHAR_TO_DIRS[char] ELSE {}

\* get_char(directions, style): the table of the style (normal for an unknown
\* style), " " for directions it has no entry for
StyleTable(style) ==
    CASE style = "normal" -> DIRS_TO_CHAR
      [] style = "heavy" -> DIRS_TO_CHAR_HEAVY
      [] style = "double" -> DIRS_TO_CHAR_DOUBLE
      [] style = "ascii" -> DIRS_TO_CHAR_ASCII
      [] OTHER -> DIRS_TO_CHAR
GetLineChar(directions, style) ==
    IF directions \in DOMAIN StyleTable(style) THEN StyleTable(style)[directions] ELSE " "

\* merge_chars(char1, char2, style)
MergeChars(char1, char2, style) ==
    LET combined == GetDirections(char1) \cup GetDirections(char2)
    IN  IF combined = {} THEN (IF char2 # " " THEN char2 ELSE char1)
        ELSE GetLineChar(combined, style)

\* JunctionCanvas(width, height, fill, style, auto_merge); set_dirs is a
\* history tag: for each cell, the directions of the line characters put there.
NewJunctionCanvas(w, h, fill, style, auto_merge) ==
    [width |-> w, height |-> h, cells |-> [p \in Positions(w, h) |-> fill],
     style |-> style, auto_merge |-> auto_merge,
     set_dirs |-> [p \in Positions(w, h) |-> GetDirections(fill)]]

\* Canvas.set, reached through super().set: no merging
CoreCanvasSet(c, x, y, char) ==
    IF InBounds(c, x, y)
    THEN [c EXCEPT !.cells[<<x, y>>] = char, !.set_dirs[<<x, y>>] = GetDirections(char)]
    ELSE c

\* JunctionCanvas.set
JunctionSet(c, x, y, char) ==
    IF ~c.auto_merge THEN CoreCanvasSet(c, x, y, char)
    ELSE IF InBounds(c, x, y)
         THEN [c EXCEPT !.cells[<<x, y>>] = MergeChars(c.cells[<<x, y>>], char, c.style),
                        !.set_dirs[<<x, y>>] = @ \cup GetDirections(char)]
         ELSE c

\* The characters the host sets: light and heavy lines, a light corner, a line
\* ending, the ASCII line characters, a letter and the blank; the styles it
\* builds canvases of.
JChars == {"u2500", "u2502", "u2503", "u250C", "u2574", "-", "|", " ", "x"}
JStyles == {"normal", "heavy", "ascii"}

\* jc = JunctionCanvas(2, 1, style=style, auto_merge=auto_merge)
JunctionNew ==
    /\ \E style \in JStyles, auto_merge \in BOOLEAN :
         jcanvas' = NewJunctionCanvas(2, 1, " ", style, auto_merge)
    /\ op' = "junction_new" /\ args' = NoArgs /\ out' = <<>>
    /\ UNCHANGED <<bufVars, canvasVars, last_buffer, force_full, rendered, forced,
                   termVars, particleVars, alt_entered, slept, value, sceneVars>>

\* jc.set(x, y, char)
JunctionCanvasSet ==
    /\ jcanvas # None
    /\ \E x \in 0 .. jcanvas.width, char \in JChars :
         /\ jcanvas' = JunctionSet(jcanvas, x, 0, char)
         /\ args' = <<x, 0, char>>
    /\ op' = "junction_set" /\ out' = <<>>
    /\ UNCHANGED <<bufVars, canvasVars, last_buffer, force_full, rendered, forced,
                   termVars, particleVars, alt_entered, slept, value, sceneVars>>

\* jc.set_raw(x, y, char)
JunctionSetRaw ==
    /\ jcanvas # None
    /\ \E x \in 0 .. jcanvas.width, char \in JChars :
         /\ jcanvas' = CoreCanvasSet(jcanvas, x, 0, char)
         /\ args' = <<x, 0, char>>
    /\ op' = "junction_set_raw" /\ out' = <<>>
    /\ UNCHANGED <<bufVars, canvasVars, last_buffer, force_full, rendered, forced,
                   termVars, particleVars, alt_entered, slept, value, sceneVars>>

\* --------------------------------------------- AnimationCanvas and the clock
\* The wall clock counts ticks of 1/(One*One) second; frame_time = 1.0 / fps
\* is FrameTime ticks of 1/One second.
MaxNow == 6
FrameTicks == FrameTime * One

\* Time passing between two calls of the host.
Tick ==
    /\ now < MaxNow
    /\ now' = now + 1
    /\ op' = "tick" /\ out' = <<>>
    /\ UNCHANGED <<bufVars, args, back, front, frame_count, running, use_alt_screen,
                   in_alt_screen, start_time, last_frame_time, commits, last_buffer,
                   force_full, rendered, forced, termVars, particleVars, moreVars>>

\* wait_frame: sleep_time = self.frame_time - (now - self.last_frame_time)
SleepTime(ft, t, lft) == ft - (t - lft)

WakeStampFixedStep(lft, woke) == lft + FrameTicks

\* wait_frame: self.last_frame_time = time.time(), read after the sleep
WakeStamp(lft, woke) == woke

\* How much later than asked time.sleep may return, in ticks.
Lates == {0, 1}

\* canvas.wait_frame()
WaitFrame ==
    /\ IF last_frame_time = NoTime
       THEN /\ last_frame_time' = now
            /\ slept' = 0
            /\ now' = now
       ELSE \E late \in Lates :
              LET sleep_time == SleepTime(FrameTicks, now, last_frame_time)
                  asked == IF sleep_time > 0 THEN sleep_time ELSE 0
                  woke == now + asked + (IF asked > 0 THEN late ELSE 0)
              IN  /\ woke <= MaxNow
                  /\ slept' = asked
                  /\ now' = woke
                  /\ last_frame_time' = WakeStamp(last_frame_time, woke)
    /\ op' = "wait_frame" /\ out' = <<>>
    /\ UNCHANGED <<bufVars, args, back, front, frame_count, running, use_alt_screen,
                   in_alt_screen, start_time, commits, last_buffer, force_full,
                   rendered, forced, termVars, particleVars, alt_entered, value, jcanvas, sceneVars>>

\* AnimationCanvas.elapsed_time
ElapsedTime(st, t) == IF st = NoTime THEN 0 ELSE t - st

AnimateValueNoDelay(el, start, end, duration, easing, delay) ==
    IF el >= duration THEN RInt(end)
    ELSE Lerp(RInt(start), RInt(end), Ease(GetEasing(easing), Rat(el, duration)))

\* AnimationCanvas.animate_value, given the value of elapsed_time()
AnimateValue(el, start, end, duration, easing, delay) ==
    LET e == el - delay
    IN  IF e < 0 THEN RInt(start)
        ELSE IF e >= duration THEN RInt(end)
        ELSE Lerp(RInt(start), RInt(end), Ease(GetEasing(easing), Rat(e, duration)))

\* The arguments of animate_value: rising and falling ranges, durations 0 to
\* 3 ticks, no delay or one tick, easings by name (one not in the registry).
AnimateRanges == {<<0, 4>>, <<3, 1>>}
AnimateDurations == {0, 2, 3}
AnimateDelays == {0, 1}
AnimateEasings == {"linear", "ease_in_out", "ease_out_bounce", "nope"}

\* canvas.animate_value(start, end, duration, easing, delay)
AnimateValueCall ==
    /\ \E r \in AnimateRanges, duration \in AnimateDurations, delay \in AnimateDelays,
          easing \in AnimateEasings :
         /\ value' = AnimateValue(ElapsedTime(start_time, now), r[1], r[2], duration,
                                  easing, delay)
         /\ args' = <<r[1], r[2], duration, easing, delay>>
    /\ op' = "animate_value" /\ out' = <<>>
    /\ UNCHANGED <<bufVars, canvasVars, last_buffer, force_full, rendered, forced,
                   termVars, particleVars, alt_entered, slept, jcanvas, sceneVars>>

\* ------------------------------------------------- Transition (animation.py)
\* clamp(r, 0.0, 1.0) of a rational
RClamp01(r) ==
    IF RLess(r, RInt(0)) THEN RInt(0) ELSE IF RLess(RInt(1), r) THEN RInt(1) ELSE r

\* Transition.__init__ (WipeTransition.__init__ adds direction); kind names the
\* class: "fade" for FadeTransition, "wipe" for WipeTransition.
NewTransition(kind, duration, easing, direction) ==
    [kind |-> kind, duration |-> duration, easing |-> GetEasing(easing),
     progress |-> RInt(0), start_time |-> NoTime, direction |-> direction]

\* Transition.start at time t
TransitionStart(tr, t) == [tr EXCEPT !.start_time = t, !.progress = RInt(0)]

\* Transition.update at time t: <<the transition after the call, the value returned>>
TransitionUpdate(tr, t) ==
    IF tr.start_time = NoTime THEN <<tr, TRUE>>
    ELSE LET progress == RClamp01(Rat(t - tr.start_time, tr.duration))
         IN  <<[tr EXCEPT !.progress = progress], ~RLess(progress, RInt(1))>>

\* Transition.get_eased_progress
GetEasedProgress(tr) == Ease(tr.easing, tr.progress)

\* Transitions of the host: durations of 1 .. MaxDuration ticks.
MaxDuration == 2
TransitionEasings == {"linear", "ease_in_out", "ease_out_bounce"}
WipeDirections == {"right", "left", "down", "up"}
HostTransitions ==
    {NewTransition("fade", d, e, "none") : d \in 1 .. MaxDuration, e \in TransitionEasings}
    \cup {NewTransition("wipe", d, e, dir) :
             d \in 1 .. MaxDuration, e \in TransitionEasings, dir \in WipeDirections}

\* tr = FadeTransition(duration, easing) or WipeTransition(duration, easing, direction)
TransitionNew ==
    /\ transition = NoScene
    /\ \E tr \in HostTransitions : transition' = tr
    /\ op' = "new_transition" /\ out' = <<>>
    /\ UNCHANGED <<bufVars, args, canvasVars, last_buffer, force_full, rendered, forced,
                   termVars, particleVars, alt_entered, slept, value, jcanvas,
                   sprite, motion, done, set_calls>>

\* tr.start()
TransitionStartCall ==
    /\ transition # NoScene
    /\ transition' = TransitionStart(transition, now)
    /\ op' = "transition_start" /\ out' = <<>>
    /\ UNCHANGED <<bufVars, args, canvasVars, last_buffer, force_full, rendered, forced,
                   termVars, particleVars, alt_entered, slept, value, jcanvas,
                   sprite, motion, done, set_calls>>

\* tr.update()
TransitionUpdateCall ==
    /\ transition # NoScene
    /\ LET r == TransitionUpdate(transition, now)
       IN  transition' = r[1] /\ done' = r[2]
    /\ op' = "transition_update" /\ out' = <<>>
    /\ UNCHANGED <<bufVars, args, canvasVars, last_buffer, force_full, rendered, forced,
                   termVars, particleVars, alt_entered, slept, value, jcanvas,
                   sprite, motion, set_calls>>

\* ------------------------- FadeTransition.apply, WipeTransition.apply
\* FadeTransition.DENSITY
DENSITY == <<" ", ".", ":", ";", "+", "=", "x", "X", "$", "#">>

\* str.find(ch) for one character: the first index, from 0, or -1
Find(s, ch) ==
    IF \E i \in 1 .. Len(s) : s[i] = ch
    THEN (CHOOSE i \in 1 .. Len(s) : s[i] = ch /\ \A j \in 1 .. i - 1 : s[j] # ch) - 1
    ELSE -1

\* s[i] in Python: a negative index counts from the end
PyIndex(s, i) == IF i >= 0 THEN s[i + 1] ELSE s[Len(s) + i + 1]

\* The body of FadeTransition.apply's loop: the character set for one cell at
\* eased progress t.
FadeChar(t, from_char, to_char) ==
    IF from_char = to_char THEN from_char
    ELSE IF RLess(t, Rat(1, 2))
    THEN LET found == Find(DENSITY, from_char)
             idx == IF found = -1 THEN Len(DENSITY) - 1 ELSE found
             f == RMul(RInt(idx), RSub(RInt(1), RMul(t, RInt(2))))
             new_idx == Trunc(f[1], f[2])
         IN  PyIndex(DENSITY, Max(0, new_idx))
    ELSE LET found == Find(DENSITY, to_char)
             idx == IF found = -1 THEN Len(DENSITY) - 1 ELSE found
             f == RMul(RInt(idx), RMul(RSub(t, Rat(1, 2)), RInt(2)))
             new_idx == Trunc(f[1], f[2])
         IN  PyIndex(DENSITY, Min(new_idx, Len(DENSITY) - 1))

\* int(n * t) for an integer n and a rational t
IntOf(n, t) == LET f == RMul(RInt(n), t) IN Trunc(f[1], f[2])

\* The branches of WipeTransition.apply: does the cell (x, y) show to_buffer?
\* An unknown direction matches no branch.
WipeShowsTo(direction, t, width, height, x, y) ==
    CASE direction = "right" -> x < IntOf(width, t)
      [] direction = "left" -> x >= IntOf(width, RSub(RInt(1), t))
      [] direction = "down" -> y < IntOf(height, t)
      [] direction = "up" -> y >= IntOf(height, RSub(RInt(1), t))
      [] OTHER -> FALSE

\* The canvas.set calls of apply(), row by row: <<x, y, char>>.
ApplyPts(tr, width, height, from_buffer, to_buffer) ==
    LET t == GetEasedProgress(tr)
    IN  IF tr.kind = "wipe" /\ tr.direction \notin {"right", "left", "down", "up"}
        THEN <<>>
        ELSE [k \in 1 .. width * height |->
                LET x == (k - 1) % width
                    y == (k - 1) \div width
                    from_char == BufferGet(from_buffer, x, y)
                    to_char == BufferGet(to_buffer, x, y)
                IN  <<x, y,
                      <<IF tr.kind = "fade" THEN FadeChar(t, from_char, to_char)
                        ELSE IF WipeShowsTo(tr.direction, t, width, height, x, y)
                             THEN to_char ELSE from_char>>>>]

\* A Buffer(2, 2) the host has filled with the four characters of s, row by row.
FilledBuffer(s) ==
    [width |-> 2, height |-> 2, cells |-> [p \in Positions(2, 2) |-> s[2 * p[2] + p[1] + 1]]]
\* The two frames a transition goes between: characters of the density ramp,
\* and letters.
ApplyPairs ==
    {<<FilledBuffer(<<"x", ".", "#", " ">>), FilledBuffer(<<" ", "#", "#", "x">>)>>,
     <<FilledBuffer(<<"a", "b", " ", "x">>), FilledBuffer(<<"b", "b", "a", " ">>)>>}

\* tr.apply(canvas, from_buffer, to_buffer)
TransitionApply ==
    /\ transition # NoScene
    /\ \E pair \in ApplyPairs :
         /\ LET r == SetAll(back, front,
                            ApplyPts(transition, back.width, back.height, pair[1], pair[2]))
            IN  back' = r[1] /\ front' = r[2]
         /\ args' = pair
    /\ op' = "apply" /\ out' = <<>>
    /\ UNCHANGED <<bufVars, frame_count, running, use_alt_screen, in_alt_screen,
                   start_time, last_frame_time, now, commits, last_buffer, force_full,
                   rendered, forced, termVars, particleVars, alt_entered, slept, value,
                   jcanvas, sceneVars>>

\* ------------------------------------------ Sprite, SpriteMotion (animation.py)
\* Sprite.__init__ for a list of n frames; positions and velocities are
\* rationals. calls, x0 and y0 are history: the update() calls so far and the
\* position given to the constructor.
NewSprite(n, x, y) ==
    [kind |-> "sprite", frames |-> n, x |-> x, y |-> y, vx |-> RInt(0), vy |-> RInt(0),
     frame_index |-> 0, frame_delay |-> 1, frame_counter |-> 0, visible |-> TRUE,
     calls |-> 0, x0 |-> x, y0 |-> y]

SpriteUpdateEveryCall(s) ==
    [s EXCEPT !.x = RAdd(s.x, s.vx), !.y = RAdd(s.y, s.vy),
              !.frame_counter = 0,
              !.frame_index = (s.frame_index + 1) % s.frames,
              !.calls = s.calls + 1]

\* Sprite.update
SpriteUpdate(s) ==
    LET counter == s.frame_counter + 1
    IN  [s EXCEPT !.x = RAdd(s.x, s.vx), !.y = RAdd(s.y, s.vy),
                  !.frame_counter = IF counter >= s.frame_delay THEN 0 ELSE counter,
                  !.frame_index = IF counter >= s.frame_delay
                                  THEN (s.frame_index + 1) % s.frames
                                  ELSE s.frame_index,
                  !.calls = s.calls + 1]

\* SpriteMotion.__init__ (Sprite.move_to); starts is history: the start()
\* calls so far, the implicit one included.
NewMotion(s, target_x, target_y, duration, easing) ==
    [kind |-> "motion", start_x |-> s.x, start_y |-> s.y,
     target_x |-> target_x, target_y |-> target_y, duration |-> duration,
     easing |-> GetEasing(easing), start_time |-> NoTime, complete |-> FALSE,
     starts |-> 0]

MotionStartKeepOrigin(m, s, t) ==
    [m EXCEPT !.start_time = t, !.complete = FALSE, !.starts = m.starts + 1]

\* SpriteMotion.start at time t, for the sprite s
MotionStart(m, s, t) ==
    [m EXCEPT !.start_time = t, !.start_x = s.x, !.start_y = s.y, !.complete = FALSE,
              !.starts = m.starts + 1]

\* SpriteMotion.update at time t: <<the motion, the sprite, the value returned>>
MotionUpdate(m, s, t) ==
    LET m1 == IF m.start_time = NoTime THEN MotionStart(m, s, t) ELSE m
        tt == RClamp01(Rat(t - m1.start_time, m1.duration))
        eased_t == Ease(m1.easing, tt)
        complete == ~RLess(tt, RInt(1))
    IN  <<[m1 EXCEPT !.complete = complete],
          [s EXCEPT !.x = Lerp(m1.start_x, m1.target_x, eased_t),
                    !.y = Lerp(m1.start_y, m1.target_y, eased_t)],
          complete>>

\* Sprites of the host: 1 .. MaxSpriteFrames frames, at one of two positions.
MaxSpriteFrames == 2
SpritePlaces == {<<RInt(0), RInt(0)>>, <<RInt(4), RInt(2)>>}
\* The target of move_to, reached in 1 .. MaxDuration ticks.
MotionTargets == {<<RInt(1), RInt(-1)>>}
MotionEasings == {"linear", "ease_in_out"}

\* s = Sprite(frames, x, y)
SpriteNew ==
    /\ sprite = NoScene
    /\ \E n \in 1 .. MaxSpriteFrames, at \in SpritePlaces : sprite' = NewSprite(n, at[1], at[2])
    /\ op' = "new_sprite" /\ out' = <<>>
    /\ UNCHANGED <<bufVars, args, canvasVars, last_buffer, force_full, rendered, forced,
                   termVars, particleVars, alt_entered, slept, value, jcanvas,
                   transition, motion, done, set_calls>>

\* s.vx, s.vy = v; s.frame_delay = d, on a sprite that was not updated yet
MaxFrameDelay == 3
SpriteVelocities == {<<RInt(0), RInt(0)>>, <<RInt(1), RInt(0)>>, <<Rat(-1, 2), RInt(2)>>}
SpriteConfigure ==
    /\ sprite # NoScene /\ sprite.calls = 0
    /\ \E v \in SpriteVelocities, d \in 1 .. MaxFrameDelay :
         /\ <<v, d>> # <<<<sprite.vx, sprite.vy>>, sprite.frame_delay>>
         /\ sprite' = [sprite EXCEPT !.vx = v[1], !.vy = v[2], !.frame_delay = d]
    /\ op' = "configure_sprite" /\ out' = <<>>
    /\ UNCHANGED <<bufVars, args, canvasVars, last_buffer, force_full, rendered, forced,
                   termVars, particleVars, alt_entered, slept, value, jcanvas,
                   transition, motion, done, set_calls>>

\* s.update(), at most MaxSpriteCalls times
MaxSpriteCalls == 7
SpriteUpdateCall ==
    /\ sprite # NoScene /\ sprite.calls < MaxSpriteCalls
    /\ sprite' = SpriteUpdate(sprite)
    /\ op' = "sprite_update" /\ out' = <<>>
    /\ UNCHANGED <<bufVars, args, canvasVars, last_buffer, force_full, rendered, forced,
                   termVars, particleVars, alt_entered, slept, value, jcanvas,
                   transition, motion, done, set_calls>>

\* s.x, s.y = at: the host puts the sprite somewhere else
SpriteJump ==
    /\ sprite # NoScene
    /\ \E at \in SpritePlaces :
         /\ at # <<sprite.x, sprite.y>>
         /\ sprite' = [sprite EXCEPT !.x = at[1], !.y = at[2]]
    /\ op' = "jump" /\ out' = <<>>
    /\ UNCHANGED <<bufVars, args, canvasVars, last_buffer, force_full, rendered, forced,
                   termVars, particleVars, alt_entered, slept, value, jcanvas,
                   transition, motion, done, set_calls>>

\* m = s.move_to(x, y, duration, easing)
MoveTo ==
    /\ sprite # NoScene /\ motion = NoScene
    /\ \E to \in MotionTargets, d \in 1 .. MaxDuration, e \in MotionEasings :
         motion' = NewMotion(sprite, to[1], to[2], d, e)
    /\ op' = "move_to" /\ out' = <<>>
    /\ UNCHANGED <<bufVars, args, canvasVars, last_buffer, force_full, rendered, forced,
                   termVars, particleVars, alt_entered, slept, value, jcanvas,
                   transition, sprite, done, set_calls>>

\* m.start(), at most MaxStarts times
MaxStarts == 2
MotionStartCall ==
    /\ motion # NoScene /\ motion.starts < MaxStarts
    /\ motion' = MotionStart(motion, sprite, now)
    /\ op' = "motion_start" /\ out' = <<>>
    /\ UNCHANGED <<bufVars, args, canvasVars, last_buffer, force_full, rendered, forced,
                   termVars, particleVars, alt_entered, slept, value, jcanvas,
                   transition, sprite, done, set_calls>>

\* m.update()
MotionUpdateCall ==
    /\ motion # NoScene
    /\ LET r == MotionUpdate(motion, sprite, now)
       IN  motion' = r[1] /\ sprite' = r[2] /\ done' = r[3]
    /\ op' = "motion_update" /\ out' = <<>>
    /\ UNCHANGED <<bufVars, args, canvasVars, last_buffer, force_full, rendered, forced,
                   termVars, particleVars, alt_entered, slept, value, jcanvas, transition, set_calls>>

vars == <<buf, back, front, last_buffer, force_full, frame_count, running,
          use_alt_screen, in_alt_screen, start_time, last_frame_time, now, out,
          got, op, args, term, cur, rendered, same_size, forced, commits,
          particles, emitters, max_particles, kill_out_of_bounds, spawned, last_dt,
          next_id, updated, survivors, total, elapsed, steady, alt_entered, slept,
          value, jcanvas, transition, sprite, motion, done, set_calls>>

\* No particle canvas and no emitter.
NoParticles == emitters = <<>> /\ max_particles = 0

\* A Buffer alone: construction, set, get, clear.
InitBuffer == InitWith(Sizes, {<<1, 1>>}) /\ NoParticles
NextBuffer == NewBuf(Sizes) \/ Set \/ Get \/ Clear
SpecBuffer == InitBuffer /\ [][NextBuffer]_vars

\* A DiffRenderer given one host buffer, edited between renders.
InitRender == InitWith(Sizes, {<<1, 1>>}) /\ NoParticles
NextRender == Edit \/ Clear \/ Render \/ ForceRedraw
SpecRender == InitRender /\ [][NextRender]_vars

\* A DiffRenderer given host buffers of different sizes.
InitResize == InitWith(ResizeSizes, {<<1, 1>>}) /\ NoParticles
NextResize == NewBuf(ResizeSizes) \/ Edit \/ Render \/ ForceRedraw
SpecResize == InitResize /\ [][NextResize]_vars

\* An AnimationCanvas of any size: drawing, start/stop, commit, force_redraw.
InitCanvas == InitWith({<<1, 1>>}, CanvasSizes) /\ NoParticles
NextCanvas == CanvasSet \/ CanvasClear \/ Start \/ Stop \/ Commit \/ CanvasForceRedraw
SpecCanvas == InitCanvas /\ [][NextCanvas]_vars

\* An AnimationCanvas(2, 1) drawn on through its whole drawing API, stopped or running.
InitDraw == InitWith({<<1, 1>>}, {<<2, 1>>}) /\ NoParticles
NextDraw ==
    \/ DrawSet \/ DrawText \/ DrawRect \/ FillRect \/ DrawLine \/ OverlayCanvas
    \/ CanvasClear \/ Start \/ Stop \/ Commit
SpecDraw == InitDraw /\ [][NextDraw]_vars

\* The easing functions called by name.
InitEasing == InitWith({<<1, 1>>}, {<<1, 1>>}) /\ NoParticles
NextEasing == EaseCall
SpecEasing == InitEasing /\ [][NextEasing]_vars

\* An AnimationCanvas paced by wait_frame while the clock runs.
InitClock == InitWith({<<1, 1>>}, {<<1, 1>>}) /\ NoParticles
NextClock == Start \/ Stop \/ Tick \/ WaitFrame
SpecClock == InitClock /\ [][NextClock]_vars

\* An AnimationCanvas asked for animated values while the clock runs.
InitAnimate == InitWith({<<1, 1>>}, {<<1, 1>>}) /\ NoParticles
NextAnimate == Start \/ Tick \/ AnimateValueCall
SpecAnimate == InitAnimate /\ [][NextAnimate]_vars

\* One Particle built and updated by the host.
InitParticle == InitWith({<<1, 1>>}, {<<1, 1>>}) /\ NoParticles
NextParticle == ParticleNew \/ ParticleStep
SpecParticle == InitParticle /\ [][NextParticle]_vars

\* A ParticleCanvas(2, 1) whose pool is rendered onto the back buffer.
InitRenderParticles == InitWith({<<1, 1>>}, {<<2, 1>>}) /\ emitters = <<>> /\ max_particles = MaxCap
NextRenderParticles == AddDrawn \/ RenderParticles \/ CanvasClear \/ Commit
SpecRenderParticles == InitRenderParticles /\ [][NextRenderParticles]_vars

\* JunctionCanvases of each style, set cell by cell.
InitJunction == InitWith({<<1, 1>>}, {<<1, 1>>}) /\ NoParticles
NextJunction == JunctionNew \/ JunctionCanvasSet \/ JunctionSetRaw
SpecJunction == InitJunction /\ [][NextJunction]_vars

\* A ParticleCanvas(2, 2, max_particles = m): particles, one emitter, updates.
InitParticles ==
    /\ InitWith({<<1, 1>>}, {<<2, 2>>})
    /\ emitters = <<>>
    /\ max_particles \in 0 .. MaxCap
NextParticles ==
    AddParticle \/ ClearParticles \/ AddEmitter \/ ClearEmitters \/ SetKill \/ UpdateParticles
SpecParticles == InitParticles /\ [][NextParticles]_vars

\* A ParticleEmitter driven by the host.
InitEmitter ==
    /\ InitWith({<<1, 1>>}, {<<1, 1>>})
    /\ \E e \in HostEmitters : emitters = <<e>>
    /\ max_particles = 0
NextEmitter == EmitterUpdate \/ EmitterBurst \/ EmitterToggle \/ EmitterSetRate
SpecEmitter == InitEmitter /\ [][NextEmitter]_vars

\* ------------------------------------------------------------------ claims
\* C1: after any number of render() calls on buffers of one size, with cell
\* edits and force_redraw() calls between them, the emulator fed with all the
\* returned strings shows exactly the buffer given to the last call.
C1_ReplayReconstructs == (rendered # None /\ same_size) => Shows(term, rendered)

\* A diff render of several cells of a buffer of two or more rows was replayed.
C1_Witness ==
    /\ op = "render" /\ same_size /\ buf.height >= 2
    /\ Len(out) >= 3 /\ out[1][1] = "POS"
    /\ \E p \in DOMAIN rendered.cells : rendered.cells[p] = "x"
    /\ \E p \in DOMAIN rendered.cells : rendered.cells[p] = " "

\* C2 (as claimed): after every render(buffer), last_buffer has the width, the
\* height and the cells of the buffer just rendered.
C2_LastBufferIsRendered ==
    rendered # None =>
        /\ last_buffer.width = rendered.width
        /\ last_buffer.height = rendered.height
        /\ last_buffer.cells = rendered.cells

\* C3 (as claimed): a render of a buffer whose cells are those of the buffer
\* rendered by the previous call, with no force_redraw() in between, returns
\* the empty string.
C3_SecondRenderEmpty ==
    [][(op' = "render" /\ rendered # None /\ ~forced /\ buf = rendered) => out' = <<>>]_vars

\* C4: a render is a full one (cursor-home, then the whole buffer text) exactly
\* when it is the first render or force_redraw() (directly or through start())
\* was called since the previous render; the flag is consumed by that render.
C4_FullExactlyWhenForced ==
    [][op' = "commit" =>
        ((out' = <<CURSOR_HOME>> \o BufferRender(back)) <=> (rendered = None \/ forced))]_vars

\* A diff render was made by the second or a later commit after start().
C4_Witness ==
    /\ op = "commit" /\ running /\ commits >= 2
    /\ out # <<>> /\ out[1][1] = "POS"

\* C9: Buffer.set outside the bounds changes nothing and inside stores the
\* first character of ch (a space for the empty string) in that cell only;
\* Buffer.get outside the bounds returns the blank and inside the cell.
C9_SetGetBounds ==
    /\ [][op' = "set" =>
            LET x == args'[1]
                y == args'[2]
                ch == args'[3]
                inside == x >= 0 /\ x < buf.width /\ y >= 0 /\ y < buf.height
            IN  /\ buf'.width = buf.width /\ buf'.height = buf.height
                /\ \A p \in DOMAIN buf.cells :
                     buf'.cells[p] = IF inside /\ p = <<x, y>>
                                     THEN (IF Len(ch) = 0 THEN " " ELSE ch[1])
                                     ELSE buf.cells[p]]_vars
    /\ [](op = "get" =>
            LET x == args[1]
                y == args[2]
            IN  got = IF x >= 0 /\ x < buf.width /\ y >= 0 /\ y < buf.height
                      THEN buf.cells[<<x, y>>] ELSE " ")

\* A set left of the buffer, with a two-character string, on a buffer holding
\* both characters.
C9_Witness ==
    /\ op = "set" /\ args[1] = -1 /\ args[2] = 0 /\ args[3] = <<"x", " ">>
    /\ \E p \in DOMAIN buf.cells : buf.cells[p] = "x"
    /\ \E p \in DOMAIN buf.cells : buf.cells[p] = " "

\* C10: after commit() the front buffer equals the back buffer, frame_count is
\* the number of commits since the last start() (or since construction), and
\* only start() decreases frame_count.
C10_CommitInvariant ==
    /\ [](op = "commit" => (front.cells = back.cells /\ front.width = back.width
                             /\ front.height = back.height))
    /\ [](frame_count = commits)
    /\ [][op' # "start" => frame_count' >= frame_count]_vars

\* A commit of a drawn-on back buffer, after a start() that came after earlier commits.
C10_Witness ==
    /\ op = "commit" /\ running /\ frame_count = 2
    /\ \E p \in DOMAIN back.cells : back.cells[p] = "x"
    /\ out # <<>> /\ out[1][1] = "POS"

\* The ids of the particles of a list.
Ids(ps) == {ps[i].id : i \in 1 .. Len(ps)}

\* C5 (as claimed): after update_particles() the pool holds at most
\* max_particles particles, and when more survived the filter it is exactly the
\* last max_particles survivors, in their order.
C5_PoolWithinCap ==
    op = "update_particles" =>
        /\ Len(particles) <= max_particles
        /\ Len(survivors) > max_particles =>
             particles = SubSeq(survivors, Len(survivors) - max_particles + 1, Len(survivors))

\* C6: after update_particles() no particle whose cumulative dt has reached its
\* lifetime is in the pool, and a particle whose cumulative dt is below its
\* lifetime passes the filter unless it is dropped for being out of bounds.
C6_LifetimeRemoval ==
    op = "update_particles" =>
        \A i \in 1 .. Len(updated) :
            LET q == updated[i]
                outside == \/ q.x < -BoundsMargin * Unit2
                           \/ q.x >= (back.width + BoundsMargin) * Unit2
                           \/ q.y < -BoundsMargin * Unit2
                           \/ q.y >= (back.height + BoundsMargin) * Unit2
            IN  /\ q.age >= q.born => q.id \notin Ids(particles)
                /\ (q.age < q.born /\ ~(kill_out_of_bounds /\ outside))
                      => q.id \in Ids(survivors)

\* With out-of-bounds killing off and no eviction, an update dropped a particle
\* at its second tick, when its cumulative dt reached its lifetime, and kept a
\* particle whose cumulative dt is below its lifetime.
C6_Witness ==
    /\ op = "update_particles" /\ ~kill_out_of_bounds
    /\ Len(survivors) <= max_particles
    /\ \E i \in 1 .. Len(updated) :
         /\ updated[i].age = updated[i].born /\ updated[i].age >= 2 /\ last_dt = 1
         /\ updated[i].id \notin Ids(particles)
    /\ \E i \in 1 .. Len(updated) :
         /\ updated[i].age < updated[i].born /\ updated[i].id \in Ids(particles)

\* C7: an active emitter of constant spawn_rate R > 0, starting from an empty
\* accumulator and never burst, has returned within 1 of floor(R * T)
\* particles after updates whose dt sum to T, however T is split.
C7_SpawnTotal ==
    LET em == emitters[1]
    IN  (op # "init" /\ steady /\ em.active /\ em.spawn_rate > 0) =>
            total - ((em.spawn_rate * elapsed) \div Unit2) \in {-1, 0, 1}

\* 2.5 particles a second for 2.5 seconds in several updates: 6 particles.
C7_Witness ==
    /\ op = "emitter_update" /\ steady /\ emitters[1].active
    /\ emitters[1].spawn_rate = 5 /\ elapsed = 5 /\ total = 6 /\ last_dt = 1

\* C8: update(dt) on an emitter that is inactive or has spawn_rate <= 0 returns
\* no particle and leaves the accumulator as it is, and switching active keeps
\* the accumulator, so the remainder is still there at reactivation.
C8_InactiveKeepsAccumulator ==
    /\ [][(op' = "emitter_update" /\ (~emitters[1].active \/ emitters[1].spawn_rate <= 0))
            => (spawned' = <<>> /\ emitters'[1].acc = emitters[1].acc)]_vars
    /\ [][op' = "set_active" => emitters'[1].acc = emitters[1].acc]_vars

\* An update of a deactivated emitter that holds a remainder from earlier spawning.
C8_Witness ==
    /\ op = "emitter_update" /\ ~emitters[1].active /\ emitters[1].spawn_rate > 0
    /\ emitters[1].acc > 0 /\ total >= 1 /\ spawned = <<>>

\* C11: every drawing operation of AnimationCanvas (set, draw_text, draw_rect,
\* fill_rect, draw_line, overlay_canvas, clear) leaves the front buffer, the
\* renderer's last_buffer and force flag, frame_count and the running flag
\* unchanged and writes nothing to the stream, on a stopped canvas and on a
\* running one; the back buffer keeps its size.
DrawOps == {"set", "draw_text", "draw_rect", "fill_rect", "draw_line", "overlay_canvas", "clear"}
C11_DrawingTouchesOnlyBack ==
    [][op' \in DrawOps =>
          /\ front' = front
          /\ last_buffer' = last_buffer
          /\ force_full' = force_full
          /\ frame_count' = frame_count
          /\ running' = running
          /\ out' = <<>>
          /\ back'.width = back.width /\ back'.height = back.height]_vars
C11_Witness ==
    /\ op = "draw_line"
    /\ running
    /\ frame_count > 0
    /\ front # back
    /\ \E p \in Positions(front.width, front.height) : front.cells[p] = "x"

\* C12: over any sequence of start(use_alt_screen) and stop() calls, the
\* canvas is running exactly when the last of them was start(); every stop()
\* writes show-cursor; stop() writes exit-alternate-screen exactly when a
\* start(use_alt_screen=True) happened since the previous stop() (or since
\* construction); after stop() the canvas records that it is not in the
\* alternate screen.
Wrote(o, tok) == \E i \in 1 .. Len(o) : o[i] = tok
C12_StartStop ==
    [][/\ op' = "start" => running'
       /\ op' = "stop" => ~running'
       /\ op' \notin {"start", "stop"} => running' = running
       /\ op' = "stop" =>
            /\ Wrote(out', SHOW_CURSOR)
            /\ Wrote(out', EXIT_ALT) <=> alt_entered
            /\ ~in_alt_screen']_vars
C12_Witness ==
    /\ op = "stop"
    /\ ~use_alt_screen
    /\ out = <<SHOW_CURSOR, EXIT_ALT>>
    /\ ~running

\* C15: every function of the EASING registry returns exactly 0 at t = 0 and
\* exactly 1 at t = 1, and get_easing(name) is linear (returns t) for every
\* name that is not a registry key.
C15_EasingEndpoints ==
    op = "ease" =>
        LET name == args[1]
            t == args[2]
        IN  /\ (name \in EASING /\ t = <<0, 1>>) => value = <<0, 1>>
            /\ (name \in EASING /\ t = <<1, 1>>) => value = <<1, 1>>
            /\ name \notin EASING => value = t
C15_Witness ==
    /\ op = "ease"
    /\ args = <<"ease_out_bounce", <<1, 1>>>>
    /\ value = <<1, 1>>

\* C13: with an integer clock that never goes back, every wait_frame() on a
\* started canvas sleeps exactly max(0, frame_time - (now - last_frame_time)),
\* never a negative amount, and then sets last_frame_time to the time at
\* which it returns; after an overrun (elapsed >= frame_time) it does not
\* sleep, and since last_frame_time is the return time the next sleep depends
\* only on the time since this call returned.
C13_WaitFrame ==
    [][/\ now' >= now
       /\ (op' = "wait_frame" /\ last_frame_time # NoTime) =>
            /\ slept' = Max(0, FrameTicks - (now - last_frame_time))
            /\ slept' >= 0
            /\ now' >= now + slept'
            /\ last_frame_time' = now'
            /\ (now - last_frame_time >= FrameTicks => slept' = 0 /\ now' = now)]_vars
C13_Witness ==
    /\ op = "wait_frame"
    /\ running
    /\ slept = 0
    /\ last_frame_time = now
    /\ now - start_time > 2 * FrameTicks
    /\ frame_count = 0

\* C14: animate_value(start, end, duration, easing, delay) depends only on
\* elapsed_time(), which is 0 on a canvas never started and now - start_time
\* after start(): it returns start while elapsed < delay, end once
\* elapsed >= delay + duration (duration = 0 included), and otherwise
\* start + (end - start) * easing((elapsed - delay) / duration).
C14_AnimateValue ==
    op = "animate_value" =>
        LET start == args[1]
            end == args[2]
            duration == args[3]
            easing == args[4]
            delay == args[5]
            el == IF start_time = NoTime THEN 0 ELSE now - start_time
        IN  /\ el < delay => value = <<start, 1>>
            /\ el >= delay + duration => value = <<end, 1>>
            /\ (el >= delay /\ el < delay + duration) =>
                 value = RAdd(RInt(start),
                              RMul(RInt(end - start),
                                   Ease(GetEasing(easing), Rat(el - delay, duration))))
C14_Witness ==
    /\ op = "animate_value"
    /\ start_time = 1
    /\ now = 4
    /\ args = <<0, 4, 3, "ease_in_out", 1>>
    /\ value = <<28, 9>>

\* C16: Particle.update(dt, gravity) adds gravity*gravity_scale*dt to vy, then
\* multiplies vx and vy by drag, then moves x and y by the updated velocity
\* times dt, then takes dt off the lifetime, and alive is lifetime > 0; the
\* particle at rest at the origin with lifetime 1, gravity_scale 1, drag 1,
\* updated with dt = 0.5 and gravity = 10, has vy = 5, y = 2.5, lifetime 0.5
\* and is alive after the first step, and has vy = 10, y = 7.5, lifetime 0 and
\* is not alive after the second.
Scenario16(p, vy, y, lifetime) ==
    /\ p.x = 0 /\ p.vx = 0 /\ p.gravity_scale = 1 /\ p.drag = 1
    /\ p.vy = vy /\ p.y = y /\ p.lifetime = lifetime
C16_UpdateOrder ==
    [][op' = "update" =>
         LET p == particles[1]
             q == particles'[1]
             dt == args'[1]
             g == args'[2]
         IN  /\ q.vy = (p.vy + g * p.gravity_scale * dt) * p.drag
             /\ q.vx = p.vx * p.drag
             /\ q.x = p.x + q.vx * dt
             /\ q.y = p.y + q.vy * dt
             /\ q.lifetime = p.lifetime - dt
             /\ Alive(q) <=> q.lifetime > 0
             /\ (Scenario16(p, 0, 0, One) /\ dt = 1 /\ g = 10) =>
                    Scenario16(q, 5 * One, 5 * One, 1) /\ Alive(q)
             /\ (Scenario16(p, 5 * One, 5 * One, 1) /\ dt = 1 /\ g = 10) =>
                    Scenario16(q, 10 * One, 15 * One, 0) /\ ~Alive(q)]_vars
C16_Witness ==
    /\ op = "update"
    /\ args = <<1, 10>>
    /\ particles # <<>>
    /\ Scenario16(particles[1], 10 * One, 15 * One, 0)
    /\ particles[1].age = 2
    /\ ~Alive(particles[1])

\* C17: render_particles() changes only back-buffer cells of the canvas: a
\* cell (cx, cy) takes a new character exactly when some particle of the pool
\* truncates to (cx, cy) and resolves to a non-blank character, and it then
\* holds the character of the last such particle in pool order; every other
\* cell, the front buffer and the pool are unchanged.
Hits(ps, c) ==
    {i \in 1 .. Len(ps) :
        /\ Trunc(ps[i].x, Unit2) = c[1]
        /\ Trunc(ps[i].y, Unit2) = c[2]
        /\ GetChar(ps[i]) # " "}
C17_RenderParticles ==
    [][op' = "render_particles" =>
         /\ front' = front
         /\ particles' = particles
         /\ back'.width = back.width /\ back'.height = back.height
         /\ DOMAIN back'.cells = Positions(back.width, back.height)
         /\ \A c \in Positions(back.width, back.height) :
              LET hits == Hits(particles, c)
              IN  IF hits = {} THEN back'.cells[c] = back.cells[c]
                  ELSE back'.cells[c] =
                         GetChar(particles[CHOOSE i \in hits : \A j \in hits : j <= i])]_vars
C17_Witness ==
    /\ op = "render_particles"
    /\ Len(particles) = 2
    /\ Hits(particles, <<0, 0>>) = {1, 2}
    /\ particles[1].x < 0
    /\ GetChar(particles[1]) = "*" /\ GetChar(particles[2]) = "o"
    /\ back.cells[<<0, 0>>] = "o"
    /\ back.cells[<<1, 0>>] = "x"
    /\ front # back

\* C18: burst(count) returns exactly count particles whether the emitter is
\* active or not and whatever its spawn_rate, and leaves the emitter (its
\* spawn accumulator included) as it was, so the updates around a burst spawn
\* what they would have spawned without it.
C18_BurstBypassesAccumulator ==
    [][op' = "burst" =>
         /\ Len(spawned') = args'[1]
         /\ emitters'[1].acc = emitters[1].acc
         /\ emitters' = emitters
         /\ total' = total]_vars
C18_Witness ==
    /\ op = "burst"
    /\ args = <<2>>
    /\ Len(spawned) = 2
    /\ ~emitters[1].active
    /\ emitters[1].spawn_rate <= 0
    /\ emitters[1].acc > 0

\* C19: with auto-merge on, set(x, y, c) of a line character onto a cell that
\* holds a line character stores the canvas style's character for the union
\* of the two characters' directions; the character at a cell is then the
\* style's character for the union of the directions of the line characters
\* set there, whatever their order; the other cells keep their character.
IsLineChar(c) == GetDirections(c) # {}
C19_JunctionMerge ==
    [][(op' = "junction_set" /\ jcanvas.auto_merge) =>
         LET p == <<args'[1], args'[2]>>
             c == args'[3]
         IN  /\ \A q \in Positions(jcanvas.width, jcanvas.height) \ {p} :
                   jcanvas'.cells[q] = jcanvas.cells[q]
             /\ (InBounds(jcanvas, p[1], p[2]) /\ IsLineChar(c)) =>
                  /\ IsLineChar(jcanvas.cells[p]) =>
                       LET union == GetDirections(jcanvas.cells[p]) \cup GetDirections(c)
                       IN  /\ union \in DOMAIN StyleTable(jcanvas.style)
                           /\ jcanvas'.cells[p] = StyleTable(jcanvas.style)[union]
                  /\ jcanvas'.cells[p] = GetLineChar(jcanvas'.set_dirs[p], jcanvas.style)]_vars

\* C20: a diff render (not the first, not forced) returns exactly one
\* character for each cell that differs from the previously rendered buffer
\* and nothing for the others, in ascending (row, column) order, each preceded
\* by the cursor position ESC[row+1;col+1H unless it is in the same row as,
\* and one column after, the changed cell before it; changing one cell of a
\* rendered Buffer(5, 3) gives just that character once the escapes are stripped.
RowMajor(b) == [i \in 1 .. b.width * b.height |-> <<(i - 1) % b.width, (i - 1) \div b.width>>]
ChangedCells(old, new) ==
    SelectSeq(RowMajor(new), LAMBDA p : BufferGet(old, p[1], p[2]) # new.cells[p])
RECURSIVE ExpectedDiff(_, _, _)
ExpectedDiff(cells, new, k) ==
    IF k > Len(cells) THEN <<>>
    ELSE LET p == cells[k]
             follows == k > 1 /\ cells[k - 1] = <<p[1] - 1, p[2]>>
         IN  (IF follows THEN <<>> ELSE <<CURSOR_POS(p[2] + 1, p[1] + 1)>>)
             \o <<<<"CH", new.cells[p]>>>> \o ExpectedDiff(cells, new, k + 1)
StripEscapes(o) == SelectSeq(o, LAMBDA t : t[1] = "CH")
Scenario20 ==
    \A p \in Positions(5, 3) :
        LET b == NewBuffer(5, 3, <<"x">>)
            o == RenderOutput(b, FALSE, BufferSet(b, p[1], p[2], <<"y">>))
        IN  StripEscapes(o) = <<<<"CH", "y">>>>
C20_DiffOutput ==
    [][(op' = "render" /\ ~force_full /\ last_buffer # None) =>
          /\ out' = ExpectedDiff(ChangedCells(rendered, buf), buf, 1)
          /\ Len(StripEscapes(out')) = Len(ChangedCells(rendered, buf))
          /\ Scenario20]_vars

\* An emitter of fixed aim, updated, switched off and on, and re-rated.
InitSpawn ==
    /\ InitWith({<<1, 1>>}, {<<1, 1>>})
    /\ \E e \in SpawnEmitters : emitters = <<e>>
    /\ max_particles = 0
NextSpawn == EmitterUpdate \/ EmitterToggle \/ EmitterSetRate
SpecSpawn == InitSpawn /\ [][NextSpawn]_vars

\* C21: update(dt) of an active emitter with spawn_rate > 0 and accumulator a
\* returns exactly floor(a + spawn_rate * dt) particles and leaves the
\* fractional part of a + spawn_rate * dt in the accumulator, which is within
\* [0, 1) after every update; an emitter spawning exactly 3.0 units per tick
\* returns 3 particles at every tick, 15 after five, and keeps accumulator 0.
C21_FloorAndFraction ==
    /\ [](0 <= emitters[1].acc /\ emitters[1].acc < Unit2)
    /\ [][(op' = "emitter_update" /\ emitters[1].active /\ emitters[1].spawn_rate > 0)
            => LET a == emitters[1].acc + emitters[1].spawn_rate * last_dt'
               IN  /\ Len(spawned') = a \div Unit2
                   /\ emitters'[1].acc = a % Unit2]_vars
    /\ []((op = "emitter_update" /\ steady /\ emitters[1].active
              /\ emitters[1].spawn_rate = 12 /\ last_dt = 1)
            => (Len(spawned) = 3 /\ emitters[1].acc = 0 /\ total = 3 * elapsed))

\* The fifth tick of half a second at 6 particles a second: 15 particles.
C21_Witness ==
    /\ op = "emitter_update" /\ steady /\ emitters[1].active
    /\ emitters[1].spawn_rate = 12 /\ last_dt = 1 /\ elapsed = 5
    /\ Len(spawned) = 3 /\ total = 15 /\ emitters[1].acc = 0

\* A Particle of the host: built, stepped, asked for its character.
InitGetChar == InitWith({<<1, 1>>}, {<<1, 1>>}) /\ NoParticles
NextGetChar == FadeNew \/ ParticleStep \/ GetCharCall
SpecGetChar == InitGetChar /\ [][NextGetChar]_vars

\* Python's round() of n/d, n >= 0 and d > 0: to the nearest, halves to even.
PyRound(n, d) ==
    LET fl == n \div d
        r2 == 2 * (n % d)
    IN  IF r2 < d THEN fl
        ELSE IF r2 > d THEN fl + 1
        ELSE IF fl % 2 = 0 THEN fl ELSE fl + 1

\* The lifetime within [0, max_lifetime]: life_ratio times max_lifetime.
LifeLeft(p) == Max(0, Min(p.max_lifetime, p.lifetime))

\* C22 as stated: get_char() returns the fixed char without a char_sequence
\* or with fade off, and otherwise char_sequence[i] with
\* i = clamp(round((1 - lifetime/max_lifetime) * (len - 1)), 0, len - 1).
C22_GetCharRounds ==
    op = "get_char" =>
        LET p == particles[1]
            n == Len(p.char_sequence)
        IN  IF n = 0 \/ ~p.fade THEN got = p.char
            ELSE IF p.max_lifetime <= 0 THEN got = p.char_sequence[n]
            ELSE got = p.char_sequence[
                     Clamp(PyRound((p.max_lifetime - LifeLeft(p)) * (n - 1), p.max_lifetime),
                           0, n - 1) + 1]

\* C22, amended: the index is the integer part, not the rounding: the i of
\* 0 .. len - 1 with i <= (1 - life_ratio) * (len - 1) < i + 1, which is 0 at
\* full lifetime and len - 1 at lifetime 0 (and only there).
C22_GetCharTruncates ==
    op = "get_char" =>
        LET p == particles[1]
            n == Len(p.char_sequence)
            m == p.max_lifetime
            gone == (m - LifeLeft(p)) * (n - 1)
        IN  IF n = 0 \/ ~p.fade THEN got = p.char
            ELSE \E i \in 0 .. n - 1 :
                   /\ got = p.char_sequence[i + 1]
                   /\ m > 0 => (i * m <= gone /\ gone < (i + 1) * m)
                   /\ m <= 0 => i = n - 1
                   /\ (m > 0 /\ p.lifetime >= m) => i = 0
                   /\ p.lifetime <= 0 => i = n - 1
                   /\ (i = n - 1 /\ n > 1) => p.lifetime <= 0

\* A particle with two thirds of its life left and three characters: the
\* product is 2/3, the index 0 (rounding gives 1).
C22_Witness ==
    /\ op = "get_char" /\ particles[1].fade /\ particles[1].char_sequence = <<"a", "b", "c">>
    /\ particles[1].lifetime = 2 /\ particles[1].max_lifetime = 3 /\ got = "a"
    /\ particles[1].age > 0

\* A ParticleCanvas(2, 2) whose particles stray over the margin.
InitBounds ==
    /\ InitWith({<<1, 1>>}, {<<2, 2>>})
    /\ emitters = <<>>
    /\ max_particles \in 1 .. MaxCap
NextBounds == AddStray \/ SetKill \/ UpdateParticles
SpecBounds == InitBounds /\ [][NextBounds]_vars

\* C23: after update_particles() with kill_out_of_bounds on, every particle of
\* the pool has lifetime > 0, -margin <= x < width + margin and
\* -margin <= y < height + margin; with kill_out_of_bounds off, every particle
\* with lifetime > 0 after the physics step passes the filter, wherever it is.
C23_BoundsFilter ==
    op = "update_particles" =>
        /\ kill_out_of_bounds =>
             \A i \in 1 .. Len(particles) :
                 /\ particles[i].lifetime > 0
                 /\ -BoundsMargin * Unit2 <= particles[i].x
                 /\ particles[i].x < (back.width + BoundsMargin) * Unit2
                 /\ -BoundsMargin * Unit2 <= particles[i].y
                 /\ particles[i].y < (back.height + BoundsMargin) * Unit2
        /\ ~kill_out_of_bounds =>
             \A i \in 1 .. Len(updated) :
                 updated[i].lifetime > 0 => updated[i].id \in Ids(survivors)

\* With killing on, a particle on the last position inside the left margin
\* stays while one that went past the right margin is gone.
C23_Witness ==
    /\ op = "update_particles" /\ kill_out_of_bounds
    /\ \E i \in 1 .. Len(particles) : particles[i].x = -BoundsMargin * Unit2
    /\ \E i \in 1 .. Len(updated) :
         /\ updated[i].x = (back.width + BoundsMargin) * Unit2
         /\ updated[i].lifetime > 0
         /\ updated[i].id \notin Ids(particles)

\* A ParticleCanvas(2, 2) filled by direct adds, bursts and one emitter.
InitOrder ==
    /\ InitWith({<<1, 1>>}, {<<2, 2>>})
    /\ emitters = <<>>
    /\ max_particles \in 1 .. MaxCap
NextOrder == AddCrowd \/ AddParticles \/ EmitBurst \/ AddCrowdEmitter \/ UpdateParticles
SpecOrder == InitOrder /\ [][NextOrder]_vars

\* C24: across add_particle, add_particles, emit_burst and update_particles,
\* the particles of the pool stand in the order in which they were appended,
\* none of them twice: a call leaves the particles it keeps in their order and
\* puts the ones it adds after them.
C24_AppendOrder ==
    /\ [](\A i \in 1 .. Len(particles), j \in 1 .. Len(particles) :
             i < j => particles[i].id < particles[j].id)
    /\ [][Ids(particles') \subseteq Ids(particles) \cup (next_id + 1 .. next_id')]_vars

\* An update that took a particle from the emitter and dropped a dead particle
\* from between two others, which stay in their order before the new one.
C24_Witness ==
    /\ op = "update_particles" /\ Len(updated) = 3 /\ max_particles = 2
    /\ updated[3].age = last_dt
    /\ updated[2].id \notin Ids(survivors)
    /\ Len(particles) = 2 /\ particles[1].id = updated[1].id /\ particles[2].id = updated[3].id

\* A Transition of the host, started, updated and restarted as time passes.
InitTransition == InitWith({<<1, 1>>}, {<<1, 1>>}) /\ NoParticles
NextTransition == TransitionNew \/ TransitionStartCall \/ TransitionUpdateCall \/ Tick
SpecTransition == InitTransition /\ [][NextTransition]_vars

\* C25: a Transition's progress is always within [0, 1]; start() puts it back
\* to 0; update() returns True only when start() has been called and the time
\* since that start() is at least the duration, so a transition that was never
\* started is not reported complete.
C25_TransitionStates ==
    transition # NoScene =>
        /\ ~RLess(transition.progress, RInt(0)) /\ ~RLess(RInt(1), transition.progress)
        /\ op = "transition_start" =>
             (transition.progress = RInt(0) /\ transition.start_time = now)
        /\ (op = "transition_update" /\ done) =>
             /\ transition.start_time # NoTime
             /\ now - transition.start_time >= transition.duration

\* A Sprite moved by a SpriteMotion, which the host starts, restarts and
\* updates as time passes, and by the host itself.
InitMotion == InitWith({<<1, 1>>}, {<<1, 1>>}) /\ NoParticles
NextMotion == SpriteNew \/ SpriteJump \/ MoveTo \/ MotionStartCall \/ MotionUpdateCall \/ Tick
SpecMotion == InitMotion /\ [][NextMotion]_vars

InitSprite == InitWith({<<1, 1>>}, {<<1, 1>>}) /\ NoParticles
NextSprite == SpriteNew \/ SpriteConfigure \/ SpriteUpdateCall
SpecSprite == InitSprite /\ [][NextSprite]_vars

AliveInBounds(ps) ==
    {i \in 1 .. Len(ps) :
        /\ ps[i].lifetime > 0
        /\ kill_out_of_bounds =>
             /\ -BoundsMargin * Unit2 <= ps[i].x
             /\ ps[i].x < (back.width + BoundsMargin) * Unit2
             /\ -BoundsMargin * Unit2 <= ps[i].y
             /\ ps[i].y < (back.height + BoundsMargin) * Unit2}

\* C28: update_particles() applies the cap after the dead and out-of-bounds
\* particles are removed: a particle alive and in bounds after the physics
\* step is evicted only if more than max_particles such particles exist, and
\* the pool then holds min(max_particles, number of such particles)
\* particles, the emitters' spawns of this tick included.
C28_CapAfterFilter ==
    op = "update_particles" =>
        LET ok == AliveInBounds(updated)
        IN  /\ (\E i \in ok : updated[i].id \notin Ids(particles))
                  => Cardinality(ok) > max_particles
            /\ Len(particles) = Min(max_particles, Cardinality(ok))

\* A FadeTransition or WipeTransition applied to a 2 x 2 canvas as it runs.
InitApply == InitWith({<<1, 1>>}, {<<2, 2>>}) /\ NoParticles
NextApply ==
    TransitionNew \/ TransitionStartCall \/ TransitionUpdateCall \/ Tick \/ TransitionApply
SpecApply == InitApply /\ [][NextApply]_vars

\* C29: apply() at eased progress 0 makes every canvas cell equal to the
\* from-buffer's cell, and at eased progress 1 equal to the to-buffer's cell,
\* for FadeTransition and for WipeTransition in each direction, whatever the
\* characters of the two buffers.
C29_ApplyEndpoints ==
    op = "apply" =>
        /\ GetEasedProgress(transition) = RInt(0) => back.cells = args[1].cells
        /\ GetEasedProgress(transition) = RInt(1) => back.cells = args[2].cells

\* An AnimationCanvas(2, 2) on which the host draws lines and which it clears.
InitLine == InitWith({<<1, 1>>}, {<<2, 2>>}) /\ NoParticles
NextLine == DrawLineTraced \/ CanvasClear
SpecLine == InitLine /\ [][NextLine]_vars

\* C30: draw_line(x1, y1, x2, y2, ch) ends, for endpoints inside and outside
\* the canvas, after at most max(|x2 - x1|, |y2 - y1|) + 1 set() calls; it
\* starts on (x1, y1) and ends on (x2, y2), so both are set when in bounds,
\* and each cell differs from the one before by at most 1 in x and in y.
C30_DrawLine ==
    op = "line" =>
        LET x1 == args[1][1]
            y1 == args[1][2]
            x2 == args[2][1]
            y2 == args[2][2]
            n == Len(set_calls)
        IN  /\ 1 <= n /\ n <= Max(Abs(x2 - x1), Abs(y2 - y1)) + 1
            /\ set_calls[1] = <<x1, y1>> /\ set_calls[n] = <<x2, y2>>
            /\ InBounds(back, x1, y1) => back.cells[<<x1, y1>>] = "x"
            /\ InBounds(back, x2, y2) => back.cells[<<x2, y2>>] = "x"
            /\ \A i \in 1 .. n - 1 :
                 /\ Abs(set_calls[i + 1][1] - set_calls[i][1]) <= 1
                 /\ Abs(set_calls[i + 1][2] - set_calls[i][2]) <= 1

\* A line from outside the canvas, across it, to a point outside: three
\* columns for two rows, four set() calls.
C30_Witness ==
    /\ op = "line" /\ args = <<<<-1, -1>>, <<2, 1>>>>
    /\ Len(set_calls) = 4
    /\ \E i \in 1 .. 4 : InBounds(back, set_calls[i][1], set_calls[i][2])

====
